---- MODULE Spec2Model ----
(***************************************************************************)
(* The browser-universal bridge (BrowserUniversalProvider): one invocation *)
(* of runBridge as a state machine, with the pure helpers it calls         *)
(* (extractLatestUserPrompt, mergeSelectors, resolveSelectorStrategy,      *)
(* matchesDomHints, the DOM readers) as operators.                         *)
(*                                                                         *)
(* Conventions.  A text (prompt, DOM text content, diagnostic) is a        *)
(* sequence of string pieces; texts that are trimmed are sequences of      *)
(* one-character pieces.  A DOM is the sequence of its elements in         *)
(* document order; an element is [kind, text, visible].                    *)
(***************************************************************************)
EXTENDS Naturals, Sequences, FiniteSets, TLC

VARIABLES
    pc,             \* position of runBridge (or of a pure-function harness)
    context,        \* context.messages, the conversation passed in
    signalAborted,  \* options.signal.aborted
    abortSeen,      \* what throwIfAborted saw: "unchecked" | "no" | "yes"
    browserPages,   \* environment: pages of the browser behind the CDP endpoint
    urlRegex,       \* this.urlRegex of the provider
    dom,            \* environment: DOM of the selected page
    prompt,         \* local: prompt
    pages,          \* local: pages, each with the focus its tab has now
    page,           \* local: page, an index into pages (0 before selection): the
                    \* page resolveFocusedPage is probing, then the page selected
    profile,        \* local: profile (its id)
    strategy,       \* local: strategy
    modelLabel,     \* local: modelLabel ([defined, text])
    initialCount,   \* local: initialCount
    countedDom,     \* history: the document as countAssistantBlocks saw it
    input,          \* local: input locator ([selector, index] into dom)
    isTextArea,     \* local: isTextArea
    responseText,   \* local: responseText
    pageTitle,      \* local of detectPlatform: title
    hintIndex,      \* detectPlatform: position of the profile probed in ProbeOrder
    selectorIndex,  \* resolveInputLocator: position of the rule probed in selectors
    pending,        \* exception propagating out of the inner try, if any
    caught,         \* the value the outer catch received, if any
    pushed,         \* every stream.push call, in order
    endCalls,       \* number of stream.end calls
    connectCalls,   \* number of chromium.connectOverCDP calls
    closeCalls,     \* number of browser.close calls
    browserHeld,    \* connectOverCDP returned a browser to this invocation
    pageActions,    \* click/fill/type/press/waitForFunction calls on the page, in order
    arg,            \* pure-function harness: the inputs
    res,            \* pure-function harness: the result
    kg,             \* knowledge-graph store: cachedDb, the file system, the calls made
    reg,            \* provider registration: the module flag and the registry
    client          \* BrowserClient: this.browser, Chrome, and the calls in flight

vars == <<pc, context, signalAborted, abortSeen, browserPages, urlRegex, dom, prompt, pages,
          page, profile, strategy, modelLabel, initialCount, countedDom, input, isTextArea,
          responseText, pageTitle, hintIndex, selectorIndex, pending, caught,
          pushed, endCalls, connectCalls, closeCalls, browserHeld, pageActions, arg, res, kg,
          reg, client>>

(***************************************************************************)
(* Bounds of the model.                                                    *)
(***************************************************************************)
MaxMsgs == 2
MaxList == 3
MaxDom == 2
MaxGrow == 1
MaxLoad == 1

MaxTurns == 3

MaxPages == 2
MaxRegs == 3
MaxOverlap == 2
MaxClientCalls == 3
MaxBadFields == 2

(***************************************************************************)
(* Texts.                                                                  *)
(***************************************************************************)
Whitespace == {" ", "\n", "\t"}

RECURSIVE trimStart(_)
trimStart(t) ==
    IF t = <<>> THEN <<>>
    ELSE IF Head(t) \in Whitespace THEN trimStart(Tail(t)) ELSE t

RECURSIVE trimEnd(_)
trimEnd(t) ==
    IF t = <<>> THEN <<>>
    ELSE IF t[Len(t)] \in Whitespace THEN trimEnd(SubSeq(t, 1, Len(t) - 1)) ELSE t

trim(t) == trimEnd(trimStart(t))

RECURSIVE join(_, _)
join(texts, sep) ==
    IF texts = <<>> THEN <<>>
    ELSE IF Len(texts) = 1 THEN texts[1]
    ELSE texts[1] \o sep \o join(Tail(texts), sep)

Range(s) == {s[i] : i \in 1..Len(s)}

SeqsUpTo(S, n) == UNION {[1..k -> S] : k \in 0..n}

(***************************************************************************)
(* Locator rules: BASE_SELECTORS and PLATFORM_PROFILES.                    *)
(***************************************************************************)
Categories == {"input", "stop", "send", "assistant", "modelLabel", "domHints"}

BASE_SELECTORS ==
    [input |-> << "#prompt-textarea",
                  "textarea[placeholder*=\"Message\"]",
                  "textarea[placeholder*=\"Send\"]",
                  "textarea",
                  "div[contenteditable=\"true\"][role=\"textbox\"]",
                  "div[role=\"textbox\"][contenteditable=\"true\"]",
                  "[contenteditable=\"true\"]" >>,
     stop |-> << "button[aria-label*=\"Stop\"]",
                 "button[title*=\"Stop\"]",
                 "button:has(svg[aria-label*=\"Stop\"])",
                 "button:has(svg[data-icon*=\"stop\"])",
                 "button:has(svg[data-testid*=\"stop\"])" >>,
     send |-> << "button[aria-label*=\"Send\"]",
                 "button[title*=\"Send\"]",
                 "button[data-testid*=\"send\"]",
                 "button:has(svg[aria-label*=\"Send\"])",
                 "button:has(svg[data-icon*=\"send\"])" >>,
     assistant |-> << "[data-message-author-role=\"assistant\"]",
                      ".markdown", ".prose", "article" >>,
     modelLabel |-> << "button[data-testid*=\"model\"]",
                       "button[aria-haspopup=\"listbox\"]",
                       "[data-testid*=\"model\"]",
                       "div[role=\"button\"][aria-haspopup=\"listbox\"]" >>,
     domHints |-> << >>]

PLATFORM_PROFILES ==
    << [id |-> "chatgpt",
        urlHints |-> << "chatgpt.com", "chat.openai.com" >>,
        selectors |->
          [input |-> << "textarea#prompt-textarea",
                        "div[contenteditable=\"true\"][data-testid=\"prompt-textarea\"]" >>,
           assistant |-> << "[data-message-author-role=\"assistant\"]",
                            ".markdown", ".prose" >>,
           stop |-> << "button[aria-label*=\"Stop\"]", "button[data-testid*=\"stop\"]" >>,
           send |-> << "button[aria-label*=\"Send\"]", "button[data-testid*=\"send\"]" >>,
           modelLabel |-> << "button[data-testid=\"model-switcher\"]",
                             "button[aria-label*=\"Model\"]",
                             "button[aria-haspopup=\"listbox\"]" >>,
           domHints |-> << "[data-message-author-role=\"assistant\"]",
                           "#prompt-textarea" >>]],
       [id |-> "claude",
        urlHints |-> << "claude.ai" >>,
        selectors |->
          [input |-> << "div[contenteditable=\"true\"][role=\"textbox\"]", "textarea" >>,
           assistant |-> << "div[data-testid=\"chat-messages\"]", ".prose", "article" >>,
           stop |-> << "button[aria-label*=\"Stop\"]",
                       "button:has(svg[data-icon*=\"stop\"])" >>,
           send |-> << "button[aria-label*=\"Send\"]", "button[type=\"submit\"]" >>,
           modelLabel |-> << "button[data-testid*=\"model\"]",
                             "button[aria-label*=\"Model\"]",
                             "div[role=\"button\"][aria-haspopup=\"listbox\"]" >>,
           domHints |-> << "[data-testid=\"chat-messages\"]",
                           "button[aria-label*=\"Model\"]" >>]],
       [id |-> "gemini",
        urlHints |-> << "gemini.google.com", "bard.google.com" >>,
        selectors |->
          [input |-> << "textarea[aria-label*=\"Enter a prompt\"]",
                        "textarea[placeholder*=\"Enter\"]" >>,
           assistant |-> << "response-container", ".markdown", ".prose", "article" >>,
           stop |-> << "button[aria-label*=\"Stop\"]",
                       "button:has(svg[data-icon*=\"stop\"])" >>,
           send |-> << "button[aria-label*=\"Send\"]",
                       "button[aria-label*=\"Submit\"]",
                       "button[type=\"submit\"]" >>,
           modelLabel |-> << "button[aria-label*=\"Model\"]",
                             "button[aria-haspopup=\"listbox\"]",
                             "[data-test-id*=\"model\"]" >>,
           domHints |-> << "body:has([data-test-id*=\"gemini\"])",
                           "div[aria-label*=\"Gemini\"]" >>]] >>

\* selectors: {} -- no category is overridden.
UNKNOWN_PROFILE ==
    [id |-> "unknown", urlHints |-> << >>, selectors |-> [c \in {} |-> << >>]]

\* DEFAULT_URL_REGEX, as the literals of its alternation (flag i).
DEFAULT_URL_REGEX ==
    [alts |-> {"chatgpt.com", "chat.openai.com", "claude.ai", "gemini.google.com"},
     ignoreCase |-> TRUE]

DEFAULT_CDP_URL == "http://127.0.0.1:9222"

DEFAULT_TIMEOUT_MS == 120000

(***************************************************************************)
(* The constructor.  An option or an environment variable is               *)
(* [defined, value]; the raw text of OPENCLAW_BROWSER_UNIVERSAL_URL_REGEX  *)
(* is a sequence of pieces, and the patterns RegExp rejects are listed.    *)
(***************************************************************************)
\* an optional value (an option, an environment variable, a field) set to v / not set
Given(v) == [defined |-> TRUE, value |-> v]

NotGiven(v) == [defined |-> FALSE, value |-> v]

InvalidPatterns == {"("}

\* new RegExp(raw): no flags; null (defined FALSE) stands for the SyntaxError caught
NewRegExp(raw) ==
    IF \E i \in 1..Len(raw) : raw[i] \in InvalidPatterns
    THEN [defined |-> FALSE, value |-> DEFAULT_URL_REGEX]
    ELSE [defined |-> TRUE, value |-> [alts |-> {raw[1]}, ignoreCase |-> FALSE]]

resolveEnvRegex(env) ==
    IF ~env.urlRegex.defined \/ trim(env.urlRegex.value) = <<>>
    THEN [defined |-> FALSE, value |-> DEFAULT_URL_REGEX]
    ELSE NewRegExp(trim(env.urlRegex.value))

\* a ?? b ?? c
Coalesce(a, b, c) == IF a.defined THEN a.value ELSE IF b.defined THEN b.value ELSE c

\* the fields the constructor sets
BrowserUniversalProvider(options, env) ==
    [cdpUrl |-> Coalesce(options.cdpUrl, env.cdpUrl, DEFAULT_CDP_URL),
     urlRegex |-> Coalesce(options.urlRegex, resolveEnvRegex(env), DEFAULT_URL_REGEX),
     timeoutMs |-> IF options.timeoutMs.defined THEN options.timeoutMs.value
                   ELSE DEFAULT_TIMEOUT_MS]

\* profile.selectors.<category>, which is undefined when the profile does not set it.
Override(p, category) ==
    IF category \in DOMAIN p.selectors
    THEN [defined |-> TRUE, items |-> p.selectors[category]]
    ELSE [defined |-> FALSE, items |-> << >>]

(***************************************************************************)
(* Regular expressions.  A pattern is the set of literals of its           *)
(* alternation plus its i flag; a URL or title is a sequence of pieces,    *)
(* and a pattern matches it when one of its literals is one of the pieces  *)
(* (compared in lower case under the i flag).                              *)
(***************************************************************************)
toLowerCase(s) ==
    CASE s = "Claude.AI" -> "claude.ai"
      [] s = "ChatGPT.com" -> "chatgpt.com"
      [] OTHER -> s

RegexTest(regex, str) ==
    \E i \in 1..Len(str) :
        \/ str[i] \in regex.alts
        \/ regex.ignoreCase /\ toLowerCase(str[i]) \in regex.alts

\* hint.test(s) for one of the /.../i literals of a profile's urlHints.
HintTest(hint, str) == RegexTest([alts |-> {hint}, ignoreCase |-> TRUE], str)

(***************************************************************************)
(* mergeSelectors and resolveSelectorStrategy.                             *)
(***************************************************************************)
\* Array.from(new Set(combined)): insertion order, first occurrence kept.
RECURSIVE ArrayFromSet(_)
ArrayFromSet(s) ==
    IF s = <<>> THEN <<>>
    ELSE <<Head(s)>> \o ArrayFromSet(SelectSeq(Tail(s), LAMBDA x : x # Head(s)))

mergeSelectors(base, specific) ==
    IF ~specific.defined \/ Len(specific.items) = 0
    THEN base
    ELSE ArrayFromSet(specific.items \o base)

\* a strategy made of the profile's own rules only
resolveSelectorStrategy_overridesOnly(p) ==
    [c \in Categories |-> Override(p, c).items]

resolveSelectorStrategy(p) ==
    [input |-> mergeSelectors(BASE_SELECTORS.input, Override(p, "input")),
     stop |-> mergeSelectors(BASE_SELECTORS.stop, Override(p, "stop")),
     send |-> mergeSelectors(BASE_SELECTORS.send, Override(p, "send")),
     assistant |-> mergeSelectors(BASE_SELECTORS.assistant, Override(p, "assistant")),
     modelLabel |-> mergeSelectors(BASE_SELECTORS.modelLabel, Override(p, "modelLabel")),
     domHints |-> mergeSelectors(BASE_SELECTORS.domHints, Override(p, "domHints"))]

(***************************************************************************)
(* The DOM.  ElementSelectors gives, for each kind of element the model    *)
(* puts on a page, the locator rules of the program that select it.        *)
(***************************************************************************)
ElementSelectors(kind) ==
    CASE kind = "textareaPrompt" ->   \* <textarea id="prompt-textarea" placeholder="Message">
           {"#prompt-textarea", "textarea#prompt-textarea",
            "textarea[placeholder*=\"Message\"]", "textarea"}
      [] kind = "editableDiv" ->      \* <div contenteditable="true" role="textbox">
           {"div[contenteditable=\"true\"][role=\"textbox\"]",
            "div[role=\"textbox\"][contenteditable=\"true\"]",
            "[contenteditable=\"true\"]"}
      [] kind = "assistantTurn" ->    \* <div data-message-author-role="assistant">
           {"[data-message-author-role=\"assistant\"]"}
      [] kind = "markdown" ->         \* <div class="markdown prose">
           {".markdown", ".prose"}
      [] kind = "article" ->          \* <article>
           {"article"}
      [] kind = "chatMessages" ->     \* <div data-testid="chat-messages">
           {"div[data-testid=\"chat-messages\"]", "[data-testid=\"chat-messages\"]"}
      [] kind = "stopButton" ->       \* <button aria-label="Stop generating">
           {"button[aria-label*=\"Stop\"]"}
      [] kind = "sendButton" ->       \* <button aria-label="Send message">
           {"button[aria-label*=\"Send\"]"}
      [] kind = "submitButton" ->     \* <button type="submit">
           {"button[type=\"submit\"]"}
      [] kind = "modelSwitcher" ->    \* <button data-testid="model-switcher">
           {"button[data-testid=\"model-switcher\"]", "button[data-testid*=\"model\"]",
            "[data-testid*=\"model\"]"}
      [] kind = "modelButton" ->      \* <button aria-label="Model selector">
           {"button[aria-label*=\"Model\"]"}
      [] kind = "geminiPane" ->       \* <div aria-label="Gemini">
           {"div[aria-label*=\"Gemini\"]"}
      [] OTHER -> {}                  \* "paragraph": <p>, selected by no rule

\* element instanceof HTMLTextAreaElement
IsTextAreaElement(el) == el.kind = "textareaPrompt"

\* document.querySelectorAll(selector), in document order
querySelectorAll(d, selector) ==
    SelectSeq(d, LAMBDA el : selector \in ElementSelectors(el.kind))

\* document.querySelector(selector) is not null
querySelectorFound(d, selector) == querySelectorAll(d, selector) # <<>>

\* selectors.some(f) for a list of selectors
Some(selectors, f(_)) == \E i \in 1..Len(selectors) : f(selectors[i])

(***************************************************************************)
(* matchesDomHints and detectPlatform.                                     *)
(***************************************************************************)
matchesDomHints(d, selectors) ==
    IF Len(selectors) = 0 THEN FALSE
    ELSE Some(selectors, LAMBDA s : querySelectorFound(d, s))

\* profile.selectors.domHints ?? []
DomHintsOf(p) == Override(p, "domHints").items

\* Array.prototype.filter / find over a list of profiles
FilterProfiles(profiles, keep(_)) == SelectSeq(profiles, keep)

\* lines 719-721: the profiles hinted at by the URL or the title
Candidates(url, title) ==
    FilterProfiles(PLATFORM_PROFILES,
        LAMBDA p : Some(p.urlHints, LAMBDA h : HintTest(h, url) \/ HintTest(h, title)))

\* a detectPlatform that probes the profiles in registry order only
ProbeOrder_registryOnly(url, title) == PLATFORM_PROFILES

\* lines 722-733: the profiles in the order detectPlatform calls matchesDomHints
\* for them: the candidates, then every profile
ProbeOrder(url, title) == Candidates(url, title) \o PLATFORM_PROFILES

\* lines 709-711: matchesDomHints awaits page.evaluate only for a profile with
\* fingerprint rules: the position after i of the next such profile, 0 when none
NextHintProbe(order, i) ==
    IF \E j \in (i + 1)..Len(order) : DomHintsOf(order[j]) # <<>>
    THEN CHOOSE j \in (i + 1)..Len(order) :
            /\ DomHintsOf(order[j]) # <<>>
            /\ \A k \in (i + 1)..(j - 1) : DomHintsOf(order[k]) = <<>>
    ELSE 0

\* lines 735-743: no profile fingerprint-matched
UrlFallback(url, regex) ==
    LET matched == FilterProfiles(PLATFORM_PROFILES,
                        LAMBDA p : Some(p.urlHints, LAMBDA h : HintTest(h, url)))
    IN IF RegexTest(regex, url) /\ matched # <<>> THEN matched[1]
       ELSE UNKNOWN_PROFILE

(***************************************************************************)
(* extractLatestUserPrompt.  A message is [role, content]; content is      *)
(* [isString, text, parts]: a string (text) or a list of parts, each       *)
(* [type, text].                                                           *)
(***************************************************************************)
StringContent(t) == [isString |-> TRUE, text |-> t, parts |-> <<>>]

PartsContent(ps) == [isString |-> FALSE, text |-> <<>>, parts |-> ps]

\* content.filter(item.type === "text").map(item.text)
RECURSIVE TextsOfParts(_)
TextsOfParts(parts) ==
    IF parts = <<>> THEN <<>>
    ELSE IF Head(parts).type = "text"
         THEN <<Head(parts).text>> \o TextsOfParts(Tail(parts))
         ELSE TextsOfParts(Tail(parts))

RECURSIVE extractLatestUserPrompt(_)
extractLatestUserPrompt(messages) ==
    IF messages = <<>> THEN <<>>
    ELSE LET message == messages[Len(messages)]
             earlier == SubSeq(messages, 1, Len(messages) - 1)
         IN IF message.role # "user" THEN extractLatestUserPrompt(earlier)
            ELSE IF message.content.isString THEN trim(message.content.text)
            ELSE LET text == trim(join(TextsOfParts(message.content.parts), <<"\n">>))
                 IN IF text # <<>> THEN text ELSE extractLatestUserPrompt(earlier)

(***************************************************************************)
(* Thrown values, assistant messages and stream events.                    *)
(***************************************************************************)
NoThrow == [thrown |-> FALSE, isError |-> FALSE, message |-> <<>>]

\* new Error(message)
ErrorOf(message) == [thrown |-> TRUE, isError |-> TRUE, message |-> message]

\* a thrown value that is no Error; message holds String(value)
NonError(str) == [thrown |-> TRUE, isError |-> FALSE, message |-> str]

\* what an awaited browser call may reject with: an Error, and for the calls that
\* open and close the channel also a value that is no Error
Rejections(api) ==
    {ErrorOf(<<api, ": Target closed">>)}
    \cup (IF api \in {"browserType.connectOverCDP", "browser.close"}
          THEN {NonError(<<api, " crashed">>)} ELSE {})

\* what a wait rejects with when its time is up
TimeoutError(api) == ErrorOf(<<api, ": Timeout exceeded.">>)

\* model.id of the requested model
RequestedModelId == <<"browser-universal">>

buildAssistantMessage_alwaysStop(text, detectedModel, stopReason) ==
    [role |-> "assistant",
     text |-> text,
     model |-> IF detectedModel.defined /\ trim(detectedModel.text) # <<>>
               THEN trim(detectedModel.text) ELSE RequestedModelId,
     totalTokens |-> 0,
     stopReason |-> "stop"]

buildAssistantMessage(text, detectedModel, stopReason) ==
    [role |-> "assistant",
     text |-> text,
     model |-> IF detectedModel.defined /\ trim(detectedModel.text) # <<>>
               THEN trim(detectedModel.text) ELSE RequestedModelId,
     totalTokens |-> 0,
     stopReason |-> stopReason]

Undefined == [defined |-> FALSE, text |-> <<>>]

\* the stream.push calls of the success path, in order
SuccessEvents(text, label) ==
    LET message == buildAssistantMessage(text, label, "stop")
    IN << [type |-> "start", partial |-> message],
          [type |-> "text_start", contentIndex |-> 0, partial |-> message],
          [type |-> "text_delta", contentIndex |-> 0, delta |-> text, partial |-> message],
          [type |-> "text_end", contentIndex |-> 0, content |-> text, partial |-> message],
          [type |-> "done", reason |-> "stop", message |-> message] >>

\* the event of the empty-prompt guard
EmptyPromptEvent ==
    [type |-> "error", reason |-> "error",
     error |-> buildAssistantMessage(<<"Browser universal: empty prompt.">>,
                                     Undefined, "error")]

\* err instanceof Error ? err.message : String(err)
CatchMessage(err) == err.message

\* the event the outer catch pushes
CatchEvent(err) ==
    [type |-> "error", reason |-> "error",
     error |-> buildAssistantMessage(<<"Browser universal error: ">> \o CatchMessage(err),
                                     Undefined, "error")]

\* throwIfAborted throws
throwIfAborted_never(aborted) == FALSE

throwIfAborted(aborted) == aborted

AbortError == ErrorOf(<<"Browser universal run aborted">>)

NoOpenPagesError == ErrorOf(<<"No open pages found in the connected Chrome instance.">>)

NoSelectablePageError ==
    ErrorOf(<<"Unable to select an active tab for browser universal provider.">>)

InputNotFoundError ==
    ErrorOf(<<"Browser universal input not found. Update selectors or focus the input.">>)

EmptyResponseError == ErrorOf(<<"Browser universal: no assistant response found.">>)

(***************************************************************************)
(* Tab selection and the DOM readers of the pipeline.  A page is           *)
(* [closed, focus, url, title, titleThrows, dom]; focus is what            *)
(* page.evaluate(() => document.hasFocus()) does: "yes", "no" or "throws". *)
(***************************************************************************)
\* index of the first element satisfying test, 0 when there is none
FirstIndex(s, test(_)) ==
    IF \E i \in 1..Len(s) : test(s[i])
    THEN CHOOSE i \in 1..Len(s) : test(s[i]) /\ \A j \in 1..(i - 1) : ~test(s[j])
    ELSE 0

\* lines 573-576: the position after i of the next page that is not closed, 0
\* when there is none
NextOpenPage(ps, i) ==
    IF \E j \in (i + 1)..Len(ps) : ~ps[j].closed
    THEN CHOOSE j \in (i + 1)..Len(ps) :
            ~ps[j].closed /\ \A k \in (i + 1)..(j - 1) : ps[k].closed
    ELSE 0

resolvePageByRegex(ps, regex) ==
    FirstIndex(ps, LAMBDA pg : ~pg.closed /\ RegexTest(regex, pg.url))

\* the tabs after tab j took the focus, or the window lost it (j = 0); a page
\* that cannot be evaluated stays so
Refocused(ps, j) ==
    [i \in 1..Len(ps) |->
        IF ps[i].closed \/ ps[i].focus = "throws" THEN ps[i]
        ELSE [ps[i] EXCEPT !.focus = IF i = j THEN "yes" ELSE "no"]]

\* await page.title().catch(() => "")
TitleOf(pg) == IF pg.titleThrows THEN <<>> ELSE pg.title

resolveModelLabel(d, selectors) ==
    LET hasText(sel) == /\ querySelectorFound(d, sel)
                        /\ trim(querySelectorAll(d, sel)[1].text) # <<>>
        i == FirstIndex(selectors, hasText)
    IN IF i = 0 THEN Undefined
       ELSE [defined |-> TRUE, text |-> trim(querySelectorAll(d, selectors[i])[1].text)]

countAssistantBlocks(d, selectors) ==
    LET i == FirstIndex(selectors, LAMBDA sel : Len(querySelectorAll(d, sel)) > 0)
    IN IF i = 0 THEN 0 ELSE Len(querySelectorAll(d, selectors[i]))

\* a waitForFunction that hands every value passed after pageFunction to the page
\* function
PageFunctionParameter_spread(n, passed) ==
    Given(passed)

\* page.waitForFunction(pageFunction, arg, options) of playwright-core calls
\* pageFunction(arg) in the page: of what a call passes after pageFunction, the
\* value in position n reaches the page function only for n = 1; the parameter
\* is undefined otherwise
PageFunctionParameter(n, passed) ==
    IF n = 1 THEN Given(passed) ELSE NotGiven(passed)

\* the page function of the first waitForFunction (lines 829-837);
\* matches.length > undefined is false
ResponseStarted(d, selectors, previousCount) ==
    Some(selectors, LAMBDA sel : /\ previousCount.defined
                                 /\ Len(querySelectorAll(d, sel)) > previousCount.value)

\* isVisible of waitForCompletion; el.visible stands for: display is not none,
\* visibility is not hidden and offsetParent is not null
isVisible(d, selector) ==
    /\ querySelectorFound(d, selector)
    /\ querySelectorAll(d, selector)[1].visible

\* the page function of waitForCompletion (lines 657-672): "true", "false", or
\* "TypeError" for sendSelectors.some on undefined
CompletionReached(d, stopSelectors, sendSelectors) ==
    LET stopVisible == Some(stopSelectors.value, LAMBDA sel : isVisible(d, sel))
        sendVisible == Some(sendSelectors.value, LAMBDA sel : isVisible(d, sel))
        sendKnown == Some(sendSelectors.value, LAMBDA sel : querySelectorFound(d, sel))
    IN IF ~stopSelectors.defined \/ ~sendSelectors.defined THEN "TypeError"
       ELSE IF ~stopVisible /\ (sendVisible \/ ~sendKnown) THEN "true"
       ELSE "false"

\* waitForCompletion on a document d that does not change: NoThrow when it
\* returns, otherwise what it rejects with
waitForCompletion(d, stopSelectors, sendSelectors) ==
    LET outcome == CompletionReached(d, PageFunctionParameter(1, stopSelectors),
                                     PageFunctionParameter(2, sendSelectors))
    IN IF outcome = "true" THEN NoThrow
       ELSE IF outcome = "false" THEN TimeoutError("page.waitForFunction")
       ELSE ErrorOf(<<"page.waitForFunction",
                      ": Cannot read properties of undefined (reading 'some')">>)

\* the last element of matches with non-blank text, trimmed; <<>> when none
RECURSIVE LastNonBlankText(_)
LastNonBlankText(matches) ==
    IF matches = <<>> THEN <<>>
    ELSE IF trim(matches[Len(matches)].text) # <<>>
         THEN trim(matches[Len(matches)].text)
         ELSE LastNonBlankText(SubSeq(matches, 1, Len(matches) - 1))

\* the first element of matches with non-blank text, trimmed; <<>> when none
RECURSIVE FirstNonBlankText(_)
FirstNonBlankText(matches) ==
    IF matches = <<>> THEN <<>>
    ELSE IF trim(Head(matches).text) # <<>>
         THEN trim(Head(matches).text)
         ELSE FirstNonBlankText(Tail(matches))

extractLatestAssistantText_firstElement(d, selectors) ==
    LET i == FirstIndex(selectors,
                 LAMBDA sel : FirstNonBlankText(querySelectorAll(d, sel)) # <<>>)
    IN IF i = 0 THEN <<>> ELSE FirstNonBlankText(querySelectorAll(d, selectors[i]))

extractLatestAssistantText(d, selectors) ==
    LET i == FirstIndex(selectors,
                 LAMBDA sel : LastNonBlankText(querySelectorAll(d, sel)) # <<>>)
    IN IF i = 0 THEN <<>> ELSE LastNonBlankText(querySelectorAll(d, selectors[i]))

\* input.evaluate((node) => node instanceof HTMLTextAreaElement)
InputIsTextArea(d, selector) == IsTextAreaElement(querySelectorAll(d, selector)[1])

(***************************************************************************)
(* The environment of one invocation: conversations, pages and page DOMs.  *)
(***************************************************************************)
El(kind, text, visible) == [kind |-> kind, text |-> text, visible |-> visible]

UserMessage(content) == [role |-> "user", content |-> content]

AssistantMessage == [role |-> "assistant", content |-> PartsContent(<<>>)]

TextPart(t) == [type |-> "text", text |-> t]

ImagePart == [type |-> "image", text |-> <<>>]

\* contents of a user turn: strings and part lists, blank and not
UserContents ==
    { StringContent(<<" ", "h", "i", "\n">>),
      StringContent(<<" ", "\n">>),
      StringContent(<<>>),
      PartsContent(<<>>),
      PartsContent(<<ImagePart>>),
      PartsContent(<<TextPart(<<" ">>)>>),
      PartsContent(<<ImagePart, TextPart(<<"h", "i">>)>>),
      PartsContent(<<TextPart(<<"a", " ">>), ImagePart, TextPart(<<"b">>)>>) }

Messages == { UserMessage(c) : c \in UserContents } \cup {AssistantMessage}

\* every conversation of at most MaxMsgs turns
Conversations == SeqsUpTo(Messages, MaxMsgs)

\* conversations of the pipeline's specification
BridgeContexts ==
    { <<>>,
      <<UserMessage(StringContent(<<" ", "h", "i", "\n">>))>>,
      <<UserMessage(StringContent(<<" ", "\n">>))>>,
      <<UserMessage(PartsContent(<<ImagePart, TextPart(<<"h", "i">>)>>))>>,
      <<AssistantMessage>> }

ChatGptUrl == <<"https://", "chatgpt.com", "/c/1">>

ClaudeUrl == <<"https://", "claude.ai", "/chat">>

GeminiUrl == <<"https://", "gemini.google.com", "/app">>

BardUrl == <<"https://", "bard.google.com", "/">>

OtherUrl == <<"https://", "example.org", "/">>

\* page DOMs before the prompt is submitted: an input control or none, an earlier
\* reply or none, a model switcher or none
BridgeDoms ==
    { i \o r \o m :
        i \in { <<>>,
                <<El("textareaPrompt", <<>>, TRUE)>>,
                <<El("editableDiv", <<>>, TRUE)>> },
        r \in { <<>>, <<El("assistantTurn", <<"o", "l", "d">>, TRUE)>> },
        m \in { <<>>, <<El("modelSwitcher", <<" ", "G", "4">>, TRUE)>> } }

BridgePages ==
    { [closed |-> FALSE, focus |-> "yes", url |-> u, title |-> <<>>,
       titleThrows |-> FALSE, dom |-> d] :
        u \in {ChatGptUrl, OtherUrl}, d \in BridgeDoms }

BridgePageLists == {<<>>} \cup { <<pg>> : pg \in BridgePages }

\* what the page may add to its DOM once the prompt is submitted
GrowPalette ==
    { El("assistantTurn", <<"h", "e", "y", " ">>, TRUE),
      El("assistantTurn", <<" ">>, TRUE),
      El("stopButton", <<>>, TRUE),
      El("sendButton", <<>>, TRUE) }

\* what a page that is still building its interface may add before that
LoadPalette ==
    { El("chatMessages", <<>>, TRUE),
      El("textareaPrompt", <<>>, TRUE) }

(***************************************************************************)
(* BrowserClient (browser-kernel.ts).  browser is this.browser: 0 for null,*)
(* otherwise the number of the puppeteer connection it holds.  chrome is   *)
(* the state of the debugging endpoint.  calls are the connect() and       *)
(* getActivePage() calls made on the client, each at the await it is       *)
(* suspended on.                                                           *)
(***************************************************************************)
IdleCall ==
    [pc |-> "idle", kind |-> "connect", first |-> "none", launches |-> 0,
     result |-> 0, error |-> ""]

ClientIdle ==
    [browser |-> 0, chrome |-> "down", discipline |-> "sequential", pages |-> <<>>,
     probes |-> 0, spawned |-> 0, connectCalls |-> 0, started |-> 0,
     calls |-> [c \in 1..MaxOverlap |-> IdleCall]]

\* lines 70-77
isChatPage(url) ==
    \E i \in 1..Len(url) :
        toLowerCase(url[i]) \in {"chatgpt.com", "claude.ai", "gemini.google.com"}

\* lines 57-67: the index of the page returned, 0 when the call throws
ActivePageIndex(urls) ==
    IF Len(urls) = 0 THEN 0
    ELSE IF FirstIndex(urls, isChatPage) # 0 THEN FirstIndex(urls, isChatPage)
    ELSE 1

\* fetchVersionInfo: whether the answer carries a webSocketDebuggerUrl.  A fetch
\* that fails, or an answer that is not ok, gives null (lines 82-88).
VersionInfoOutcomes(chrome) == IF chrome = "up" THEN BOOLEAN ELSE {FALSE}

(***************************************************************************)
(* registerBrowserUniversalProvider.  The state is the module-level flag   *)
(* browserUniversalRegistered, the providers handed to registerApiProvider *)
(* in order, and the number of providers constructed.                      *)
(***************************************************************************)
RegIdle ==
    [registered |-> FALSE, providers |-> <<>>, constructed |-> 0, calls |-> 0,
     last |-> <<>>]

\* a registration that does not consult the flag
registerBrowserUniversalProvider_noFlag(state, options, env) ==
    [state EXCEPT
       !.constructed = @ + 1,
       !.providers = Append(@, [provider |-> BrowserUniversalProvider(options, env),
                                sourceId |-> "openclaw-browser-universal"]),
       !.registered = TRUE]

registerBrowserUniversalProvider(state, options, env) ==
    IF state.registered THEN state
    ELSE [state EXCEPT
            !.constructed = @ + 1,
            !.providers = Append(@, [provider |-> BrowserUniversalProvider(options, env),
                                     sourceId |-> "openclaw-browser-universal"]),
            !.registered = TRUE]

(***************************************************************************)
(* The knowledge-graph store (sqlite.ts).  A database path is [dir, file]; *)
(* the store is cachedDb ([defined, path]), the directories created, and   *)
(* for each path whether the database file exists, whether the schema has  *)
(* been applied to it, and the rows of kg_turns.                           *)
(***************************************************************************)
KgPaths ==
    { [dir |-> "/state/knowledge-graph", file |-> "graph.sqlite"],
      [dir |-> "/tmp/kg", file |-> "turns.db"] }

KgConfigs == [enabled : BOOLEAN, dbPath : KgPaths]

\* turn records: every optional field set, and none set
KgTurns ==
    { [sessionId |-> Given("s1"), sessionKey |-> Given("k1"),
       provider |-> Given("browser-universal"), model |-> Given("gpt"),
       prompt |-> "hi", response |-> "hey", metadata |-> Given("{\"n\":1}")],
      [sessionId |-> NotGiven(""), sessionKey |-> NotGiven(""),
       provider |-> NotGiven(""), model |-> NotGiven(""),
       prompt |-> "", response |-> "", metadata |-> NotGiven("")] }

NoFile == [exists |-> FALSE, schema |-> FALSE, rows |-> <<>>]

KgIdle ==
    [cachedDb |-> NotGiven(CHOOSE p \in KgPaths : TRUE),
     dirs |-> {},
     files |-> [p \in KgPaths |-> NoFile],
     opens |-> 0,
     calls |-> 0,
     last |-> <<>>,
     rejected |-> FALSE]

\* what the file system lets a call do
KgOutcomes == {"ok", "mkdirThrows", "openThrows"}

\* x ?? null, with the string "null" for SQL NULL
OrNull(x) == IF x.defined THEN x.value ELSE "null"

\* the row that stmt.run inserts; id stands for crypto.randomUUID()
KgRow(id, turn) ==
    [id |-> id, session_id |-> OrNull(turn.sessionId),
     session_key |-> OrNull(turn.sessionKey), provider |-> OrNull(turn.provider),
     model |-> OrNull(turn.model), prompt |-> turn.prompt, response |-> turn.response,
     metadata_json |-> OrNull(turn.metadata)]

\* getDatabase: the store after the call; its field rejected tells that it threw
getDatabase(store, dbPath, outcome) ==
    IF store.cachedDb.defined /\ store.cachedDb.value = dbPath
    THEN store
    ELSE IF outcome = "mkdirThrows"
    THEN [store EXCEPT !.rejected = TRUE]
    ELSE IF outcome = "openThrows"
    THEN [store EXCEPT !.dirs = @ \cup {dbPath.dir}, !.rejected = TRUE]
    ELSE [store EXCEPT !.dirs = @ \cup {dbPath.dir},
                       !.files[dbPath].exists = TRUE,
                       !.files[dbPath].schema = TRUE,
                       !.opens = @ + 1,
                       !.cachedDb = Given(dbPath)]

persistKnowledgeGraphTurn_ignoresEnabled(store, config, turn, outcome) ==
    LET opened == getDatabase(store, config.dbPath, outcome)
    IN IF opened.rejected THEN opened
       ELSE [opened EXCEPT !.files[config.dbPath].rows =
                                Append(@, KgRow(store.calls + 1, turn))]

persistKnowledgeGraphTurn(store, config, turn, outcome) ==
    IF ~config.enabled THEN store
    ELSE LET opened == getDatabase(store, config.dbPath, outcome)
         IN IF opened.rejected THEN opened
            ELSE [opened EXCEPT !.files[config.dbPath].rows =
                                     Append(@, KgRow(store.calls + 1, turn))]

(***************************************************************************)
(* runBridge.  pc names the call the invocation is waiting on; an action   *)
(* is the continuation that runs when that call returns or rejects, up to  *)
(* and including the next call it makes.                                   *)
(***************************************************************************)
NoStrategy ==
    [input |-> <<>>, stop |-> <<>>, send |-> <<>>, assistant |-> <<>>,
     modelLabel |-> <<>>, domHints |-> <<>>]

loopVars == <<pageTitle, hintIndex, selectorIndex>>

locals == <<prompt, pages, page, profile, strategy, modelLabel, initialCount, countedDom,
input,
            isTextArea, responseText, loopVars>>

outVars == <<caught, pushed, endCalls>>

sigVars == <<signalAborted, abortSeen>>

fnVars == <<arg, res, kg, reg, client>>

BridgeIdle ==
    /\ abortSeen = "unchecked"
    /\ dom = <<>>
    /\ prompt = <<>>
    /\ pages = <<>>
    /\ page = 0
    /\ profile = "none"
    /\ strategy = NoStrategy
    /\ modelLabel = Undefined
    /\ initialCount = 0
    /\ countedDom = <<>>
    /\ input = ""
    /\ isTextArea = FALSE
    /\ responseText = <<>>
    /\ pageTitle = <<>>
    /\ hintIndex = 0
    /\ selectorIndex = 0
    /\ pending = NoThrow
    /\ caught = NoThrow
    /\ pushed = <<>>
    /\ endCalls = 0
    /\ connectCalls = 0
    /\ closeCalls = 0
    /\ browserHeld = FALSE
    /\ pageActions = <<>>
    /\ kg = KgIdle
    /\ reg = RegIdle

Init ==
    /\ pc = "start"
    /\ context \in BridgeContexts
    /\ signalAborted \in BOOLEAN
    /\ browserPages \in BridgePageLists
    /\ urlRegex = DEFAULT_URL_REGEX
    /\ BridgeIdle
    /\ client = ClientIdle
    /\ arg = <<>>
    /\ res = <<>>

\* the outer catch (lines 869-879): one error event, stream.end, and the promise
\* resolves
OuterCatch(e) ==
    /\ pc' = "done"
    /\ caught' = e
    /\ pushed' = Append(pushed, CatchEvent(e))
    /\ endCalls' = endCalls + 1

\* leaving the inner try (normally, e = NoThrow, or by a throw): the finally block
\* calls browser.close()
Finally_onlyOnSuccess(e) ==
    /\ pc' = "close"
    /\ pending' = e
    /\ closeCalls' = IF e.thrown THEN closeCalls ELSE closeCalls + 1

Finally(e) ==
    /\ pc' = "close"
    /\ pending' = e
    /\ closeCalls' = closeCalls + 1

\* the name of the call awaited at pc
ApiAt(at) ==
    CASE at = "connect" -> "browserType.connectOverCDP"
      [] at \in {"hints", "modelLabel", "count", "extract"} -> "page.evaluate"
      [] at = "click" -> "locator.click"
      [] at = "isTextArea" -> "locator.evaluate"
      [] at \in {"fill", "clear"} -> "locator.fill"
      [] at = "type" -> "locator.type"
      [] at = "press" -> "locator.press"
      [] at \in {"phaseA", "phaseB"} -> "page.waitForFunction"
      [] OTHER -> "browser.close"

PageCall(op, text) == [op |-> op, text |-> text]

\* lines 783-794: the empty-prompt guard
StartEmptyPrompt ==
    /\ pc = "start"
    /\ extractLatestUserPrompt(context) = <<>>
    /\ prompt' = <<>>
    /\ pushed' = Append(pushed, EmptyPromptEvent)
    /\ endCalls' = endCalls + 1
    /\ pc' = "done"
    /\ UNCHANGED <<context, browserPages, urlRegex, dom, sigVars, pages, page, profile, strategy,
                   modelLabel, initialCount, countedDom, input, isTextArea, responseText,
                   loopVars, pending,
                   caught, connectCalls, closeCalls, browserHeld, pageActions,
                   fnVars>>

\* lines 797-798 and 869-879: throwIfAborted throws before the channel is opened
StartAborted ==
    /\ pc = "start"
    /\ extractLatestUserPrompt(context) # <<>>
    /\ throwIfAborted(signalAborted)
    /\ prompt' = extractLatestUserPrompt(context)
    /\ abortSeen' = IF signalAborted THEN "yes" ELSE "no"
    /\ OuterCatch(AbortError)
    /\ UNCHANGED <<context, browserPages, urlRegex, dom, signalAborted, pages, page, profile,
                   strategy, modelLabel, initialCount, countedDom, input, isTextArea,
                   responseText,
                   loopVars,
                   pending, connectCalls, closeCalls, browserHeld, pageActions, fnVars>>

\* lines 797-799: not aborted, chromium.connectOverCDP is called
StartConnect ==
    /\ pc = "start"
    /\ extractLatestUserPrompt(context) # <<>>
    /\ ~throwIfAborted(signalAborted)
    /\ prompt' = extractLatestUserPrompt(context)
    /\ abortSeen' = IF signalAborted THEN "yes" ELSE "no"
    /\ connectCalls' = connectCalls + 1
    /\ pc' = "connect"
    /\ UNCHANGED <<context, browserPages, urlRegex, dom, signalAborted, pages, page, profile,
                   strategy, modelLabel, initialCount, countedDom, input, isTextArea,
                   responseText,
                   loopVars,
                   pending, outVars, closeCalls, browserHeld, pageActions, fnVars>>

\* connectOverCDP rejects: no browser was handed over, the outer catch runs
ConnectFails ==
    /\ pc = "connect"
    /\ \E e \in Rejections(ApiAt("connect")) : OuterCatch(e)
    /\ UNCHANGED <<context, browserPages, urlRegex, dom, sigVars, locals, pending, connectCalls,
                   closeCalls, browserHeld, pageActions, fnVars>>

\* lines 806-812 and 717-718: the focus probes are over, page `focused` reported
\* focus (0: none did): resolvePageByRegex, then pages[0]; detectPlatform reads
\* page.url() and calls page.title()
SelectionEnds(ps, focused) ==
    LET byRegex == resolvePageByRegex(ps, urlRegex)
        idx == IF focused # 0 THEN focused
               ELSE IF byRegex # 0 THEN byRegex
               ELSE IF Len(ps) > 0 THEN 1 ELSE 0
    IN /\ page' = idx
       /\ IF idx = 0
          THEN Finally(NoSelectablePageError) /\ dom' = dom
          ELSE /\ pc' = "title"
               /\ dom' = ps[idx].dom
               /\ UNCHANGED <<pending, closeCalls>>

\* lines 573-586: the pages up to the i-th did not report focus: the next page
\* that is not closed is asked document.hasFocus(); with none left the loop ends
ProbeNextPage(ps, i) ==
    IF NextOpenPage(ps, i) = 0
    THEN SelectionEnds(ps, 0)
    ELSE /\ pc' = "focus"
         /\ page' = NextOpenPage(ps, i)
         /\ UNCHANGED <<dom, pending, closeCalls>>

\* lines 799-805: connectOverCDP returns; the pages are listed and
\* resolveFocusedPage starts
ConnectReturns ==
    /\ pc = "connect"
    /\ browserHeld' = TRUE
    /\ pages' = browserPages
    /\ IF Len(browserPages) = 0
       THEN Finally(NoOpenPagesError) /\ UNCHANGED <<page, dom>>
       ELSE ProbeNextPage(browserPages, 0)
    /\ UNCHANGED <<context, browserPages, urlRegex, sigVars, prompt, profile, strategy,
                   modelLabel, initialCount, countedDom, input, isTextArea, responseText,
                   loopVars, outVars,
                   connectCalls, pageActions, fnVars>>

\* lines 577-585: the hasFocus probe of pages[page] settles on the tabs as they
\* are now; a rejection is caught and counts as no focus
FocusReturns ==
    /\ pc = "focus"
    /\ IF pages[page].focus = "yes"
       THEN SelectionEnds(pages, page)
       ELSE ProbeNextPage(pages, page)
    /\ UNCHANGED <<context, browserPages, urlRegex, sigVars, prompt, pages, profile,
                   strategy, modelLabel, initialCount, countedDom, input, isTextArea,
                   responseText, loopVars,
                   outVars, connectCalls, browserHeld, pageActions, fnVars>>

\* the user switches tabs, or leaves the browser window, while a focus probe is
\* awaited
FocusChanges ==
    /\ pc = "focus"
    /\ \E j \in 0..Len(pages) :
          /\ j # 0 => ~pages[j].closed /\ pages[j].focus # "throws"
          /\ pages' = Refocused(pages, j)
    /\ pages' # pages
    /\ UNCHANGED <<pc, context, sigVars, browserPages, urlRegex, dom, prompt, page,
                   profile, strategy, modelLabel, initialCount, countedDom, input,
                   isTextArea, responseText, loopVars, pending, outVars, connectCalls,
                   closeCalls, browserHeld, pageActions, fnVars>>

\* lines 812-814: detectPlatform returns p, the strategy is resolved and
\* resolveModelLabel is called
DetectionEnds(p) ==
    /\ profile' = p.id
    /\ strategy' = resolveSelectorStrategy(p)
    /\ pc' = "modelLabel"
    /\ UNCHANGED hintIndex

\* lines 722-743: the probes up to the i-th of order matched nothing: the next
\* profile with fingerprint rules is probed; with none left the URL decides
DetectionContinues(order, i) ==
    IF NextHintProbe(order, i) = 0
    THEN DetectionEnds(UrlFallback(pages[page].url, urlRegex))
    ELSE /\ pc' = "hints"
         /\ hintIndex' = NextHintProbe(order, i)
         /\ UNCHANGED <<profile, strategy>>

\* lines 718-724: page.title() settles (a rejection gives ""), the candidates are
\* computed and the first fingerprint probe is made
TitleReturns ==
    /\ pc = "title"
    /\ pageTitle' = TitleOf(pages[page])
    /\ DetectionContinues(ProbeOrder(pages[page].url, TitleOf(pages[page])), 0)
    /\ UNCHANGED <<context, browserPages, urlRegex, dom, sigVars, prompt, pages, page, modelLabel,
                   initialCount, countedDom, input, isTextArea, responseText,
                   selectorIndex, pending,
                   outVars, connectCalls, closeCalls, browserHeld, pageActions, fnVars>>

\* lines 722-733: the page.evaluate of matchesDomHints returns for the profile
\* probed, on the document as it is now
HintsReturn ==
    /\ pc = "hints"
    /\ \E order \in {ProbeOrder(pages[page].url, pageTitle)} :
          IF matchesDomHints(dom, DomHintsOf(order[hintIndex]))
          THEN DetectionEnds(order[hintIndex])
          ELSE DetectionContinues(order, hintIndex)
    /\ UNCHANGED <<context, browserPages, urlRegex, dom, sigVars, prompt, pages, page, modelLabel,
                   initialCount, countedDom, input, isTextArea, responseText, pageTitle,
                   selectorIndex,
                   pending, outVars, connectCalls, closeCalls, browserHeld, pageActions,
                   fnVars>>

\* a pipeline that takes no baseline: the input is located right after the label
ModelLabelReturns_skipsCount ==
    /\ pc = "modelLabel"
    /\ modelLabel' = resolveModelLabel(dom, strategy.modelLabel)
    /\ IF strategy.input = <<>>
       THEN Finally(InputNotFoundError) /\ UNCHANGED selectorIndex
       ELSE /\ pc' = "locate"
            /\ selectorIndex' = 1
            /\ UNCHANGED <<pending, closeCalls>>
    /\ UNCHANGED <<context, browserPages, urlRegex, dom, sigVars, prompt, pages, page, profile,
                   strategy, initialCount, countedDom, input, isTextArea, responseText,
                   pageTitle,
                   hintIndex, outVars, connectCalls, browserHeld, pageActions, fnVars>>

\* lines 814-816
ModelLabelReturns ==
    /\ pc = "modelLabel"
    /\ modelLabel' = resolveModelLabel(dom, strategy.modelLabel)
    /\ pc' = "count"
    /\ UNCHANGED <<context, browserPages, urlRegex, dom, sigVars, prompt, pages, page, profile,
                   strategy, initialCount, countedDom, input, isTextArea, responseText,
                   loopVars,
                   pending, outVars, connectCalls, closeCalls, browserHeld, pageActions,
                   fnVars>>

\* lines 816-817 and 625-628: the baseline is counted; resolveInputLocator probes
\* its first rule, or throws when it has no rule
CountReturns ==
    /\ pc = "count"
    /\ initialCount' = countAssistantBlocks(dom, strategy.assistant)
    /\ countedDom' = dom
    /\ IF strategy.input = <<>>
       THEN Finally(InputNotFoundError) /\ UNCHANGED selectorIndex
       ELSE /\ pc' = "locate"
            /\ selectorIndex' = 1
            /\ UNCHANGED <<pending, closeCalls>>
    /\ UNCHANGED <<context, browserPages, urlRegex, dom, sigVars, prompt, pages, page, profile,
                   strategy, modelLabel, input, isTextArea, responseText, pageTitle,
                   hintIndex, outVars, connectCalls, browserHeld, pageActions, fnVars>>

\* the input rules whose visibility probe may reject: any rule, or the rules the
\* environment fixed with the page (arg = <<set>>), which then always reject
ProbeFailures(selectors) ==
    IF Len(arg) = 0 THEN Range(selectors) ELSE arg[1] \cap Range(selectors)

\* how locator.isVisible() of a rule may settle on document d
ProbeOutcomes(d, selector) ==
    (IF selector \in ProbeFailures(strategy.input) THEN {"rejects"} ELSE {})
    \cup (IF Len(arg) > 0 /\ selector \in arg[1] THEN {}
          ELSE {IF isVisible(d, selector) THEN "visible" ELSE "hidden"})

\* a search that a rejected visibility probe ends
IsVisibleReturns_probeFatal ==
    /\ pc = "locate"
    /\ \E outcome \in ProbeOutcomes(dom, strategy.input[selectorIndex]) :
          IF outcome = "visible"
          THEN /\ input' = strategy.input[selectorIndex]
               /\ pageActions' = Append(pageActions, PageCall("click", <<>>))
               /\ pc' = "click"
               /\ UNCHANGED <<selectorIndex, pending, closeCalls>>
          ELSE IF outcome = "hidden" /\ selectorIndex < Len(strategy.input)
          THEN /\ selectorIndex' = selectorIndex + 1
               /\ UNCHANGED <<pc, input, pageActions, pending, closeCalls>>
          ELSE /\ Finally(InputNotFoundError)
               /\ UNCHANGED <<selectorIndex, input, pageActions>>
    /\ UNCHANGED <<context, browserPages, urlRegex, dom, sigVars, prompt, pages, page, profile,
                   strategy, modelLabel, initialCount, countedDom, isTextArea,
                   responseText, pageTitle,
                   hintIndex, outVars, connectCalls, browserHeld, fnVars>>

\* lines 625-635 and 817-818: locator.isVisible() of the rule probed settles, on the
\* document as it is now: visible, the locator is returned and input.click is
\* called; not visible or rejected, the next rule is probed; after the last rule
\* resolveInputLocator throws
IsVisibleReturns ==
    /\ pc = "locate"
    /\ \E outcome \in ProbeOutcomes(dom, strategy.input[selectorIndex]) :
          IF outcome = "visible"
          THEN /\ input' = strategy.input[selectorIndex]
               /\ pageActions' = Append(pageActions, PageCall("click", <<>>))
               /\ pc' = "click"
               /\ UNCHANGED <<selectorIndex, pending, closeCalls>>
          ELSE IF selectorIndex < Len(strategy.input)
          THEN /\ selectorIndex' = selectorIndex + 1
               /\ UNCHANGED <<pc, input, pageActions, pending, closeCalls>>
          ELSE /\ Finally(InputNotFoundError)
               /\ UNCHANGED <<selectorIndex, input, pageActions>>
    /\ UNCHANGED <<context, browserPages, urlRegex, dom, sigVars, prompt, pages, page, profile,
                   strategy, modelLabel, initialCount, countedDom, isTextArea,
                   responseText, pageTitle,
                   hintIndex, outVars, connectCalls, browserHeld, fnVars>>

\* lines 818-819
ClickReturns ==
    /\ pc = "click"
    /\ pc' = "isTextArea"
    /\ UNCHANGED <<context, browserPages, urlRegex, dom, sigVars, locals, pending, outVars,
                   connectCalls, closeCalls, browserHeld, pageActions, fnVars>>

\* an injection that sets the prompt with fill whatever the control is
IsTextAreaReturns_alwaysFill ==
    /\ pc = "isTextArea"
    /\ isTextArea' = InputIsTextArea(dom, input)
    /\ pageActions' = Append(pageActions, PageCall("fill", prompt))
    /\ pc' = "fill"
    /\ UNCHANGED <<context, browserPages, urlRegex, dom, sigVars, prompt, pages, page, profile,
                   strategy, modelLabel, initialCount, countedDom, input, responseText,
                   loopVars,
                   pending, outVars, connectCalls, closeCalls, browserHeld, fnVars>>

\* lines 819-824: fill(prompt) for a textarea, fill("") otherwise
IsTextAreaReturns ==
    /\ pc = "isTextArea"
    /\ isTextArea' = InputIsTextArea(dom, input)
    /\ IF InputIsTextArea(dom, input)
       THEN /\ pageActions' = Append(pageActions, PageCall("fill", prompt))
            /\ pc' = "fill"
       ELSE /\ pageActions' = Append(pageActions, PageCall("fill", <<>>))
            /\ pc' = "clear"
    /\ UNCHANGED <<context, browserPages, urlRegex, dom, sigVars, prompt, pages, page, profile,
                   strategy, modelLabel, initialCount, countedDom, input, responseText,
                   loopVars,
                   pending, outVars, connectCalls, closeCalls, browserHeld, fnVars>>

\* lines 821 and 826: fill(prompt) returned, press("Enter") is called
FillReturns ==
    /\ pc = "fill"
    /\ pageActions' = Append(pageActions, PageCall("press", <<"Enter">>))
    /\ pc' = "press"
    /\ UNCHANGED <<context, browserPages, urlRegex, dom, sigVars, locals, pending, outVars,
                   connectCalls, closeCalls, browserHeld, fnVars>>

\* lines 823-824: fill("") returned, type(prompt) is called
ClearReturns ==
    /\ pc = "clear"
    /\ pageActions' = Append(pageActions, PageCall("type", prompt))
    /\ pc' = "type"
    /\ UNCHANGED <<context, browserPages, urlRegex, dom, sigVars, locals, pending, outVars,
                   connectCalls, closeCalls, browserHeld, fnVars>>

\* lines 824 and 826: type(prompt) returned, press("Enter") is called
TypeReturns ==
    /\ pc = "type"
    /\ pageActions' = Append(pageActions, PageCall("press", <<"Enter">>))
    /\ pc' = "press"
    /\ UNCHANGED <<context, browserPages, urlRegex, dom, sigVars, locals, pending, outVars,
                   connectCalls, closeCalls, browserHeld, fnVars>>

\* lines 826-828: press returned, the first waitForFunction starts
PressReturns ==
    /\ pc = "press"
    /\ pageActions' = Append(pageActions, PageCall("waitForFunction", <<"started">>))
    /\ pc' = "phaseA"
    /\ UNCHANGED <<context, browserPages, urlRegex, dom, sigVars, locals, pending, outVars,
                   connectCalls, closeCalls, browserHeld, fnVars>>

\* lines 828-841: the predicate of the first wait as the call runs it; what the call
\* passes after strategy.assistant does not reach the page function
FirstWaitPredicate ==
    ResponseStarted(dom, strategy.assistant, PageFunctionParameter(2, initialCount))

\* a first wait that never gives up
PhaseATimesOut_never ==
    /\ pc = "phaseA"
    /\ FALSE
    /\ UNCHANGED vars

\* a first wait that, instead of failing, presses the submit key and waits again
PhaseATimesOut_retry ==
    /\ pc = "phaseA"
    /\ ~FirstWaitPredicate
    /\ Len(pageActions) < 8
    /\ pageActions' = Append(pageActions, PageCall("press", <<"Enter">>))
    /\ pc' = "press"
    /\ UNCHANGED <<context, browserPages, urlRegex, dom, sigVars, locals, pending, outVars,
                   connectCalls, closeCalls, browserHeld, fnVars>>

\* lines 828-841: the predicate of the first wait has not held when the time of the
\* wait is up (the time playwright-core allows by default: the call's
\* { timeout: timeoutMs } is its fourth argument, which waitForFunction does not read)
PhaseATimesOut ==
    /\ pc = "phaseA"
    /\ ~FirstWaitPredicate
    /\ Finally(TimeoutError(ApiAt("phaseA")))
    /\ UNCHANGED <<context, browserPages, urlRegex, dom, sigVars, locals, outVars, connectCalls,
                   browserHeld, pageActions, fnVars>>

\* the first wait rejects for another reason than its timeout
WaitCrashes ==
    /\ pc = "phaseA"
    /\ \E e \in Rejections(ApiAt(pc)) : Finally(e)
    /\ UNCHANGED <<context, browserPages, urlRegex, dom, sigVars, locals, outVars, connectCalls,
                   browserHeld, pageActions, fnVars>>

\* an awaited page call inside the inner try rejects
AwaitFails ==
    /\ pc \in {"hints", "modelLabel", "count", "click", "isTextArea", "fill", "clear",
               "type", "press"}
    /\ \E e \in Rejections(ApiAt(pc)) : Finally(e)
    /\ UNCHANGED <<context, browserPages, urlRegex, dom, sigVars, locals, outVars, connectCalls,
                   browserHeld, pageActions, fnVars>>

\* lines 866-879: browser.close() returns; a pending exception reaches the catch
CloseReturns ==
    /\ pc = "close"
    /\ IF pending.thrown
       THEN OuterCatch(pending)
       ELSE pc' = "done" /\ UNCHANGED outVars
    /\ UNCHANGED <<context, browserPages, urlRegex, dom, sigVars, locals, pending, connectCalls,
                   closeCalls, browserHeld, pageActions, fnVars>>

\* a catch that reports the exception in flight and then the rejection of close
OnCloseRejected_reportsBoth(e) ==
    /\ pc' = "done"
    /\ caught' = e
    /\ pushed' = IF pending.thrown
                 THEN pushed \o <<CatchEvent(pending), CatchEvent(e)>>
                 ELSE Append(pushed, CatchEvent(e))
    /\ endCalls' = endCalls + 1

\* what runBridge does with a rejection of browser.close(): the finally block is
\* inside the outer try, so the catch receives it (and it replaces a pending one)
OnCloseRejected(e) == OuterCatch(e)

\* lines 866-879: browser.close() rejects
CloseFails ==
    /\ pc = "close"
    /\ \E e \in Rejections(ApiAt("close")) : OnCloseRejected(e)
    /\ UNCHANGED <<context, browserPages, urlRegex, dom, sigVars, locals, pending, connectCalls,
                   closeCalls, browserHeld, pageActions, fnVars>>

\* the caller aborts options.signal while the invocation is running
Abort ==
    /\ pc \in {"connect", "focus", "title", "hints", "modelLabel", "count", "locate",
               "click", "isTextArea", "fill", "clear", "type", "press", "phaseA",
               "close"}
    /\ ~signalAborted
    /\ signalAborted' = TRUE
    /\ UNCHANGED <<pc, context, abortSeen, browserPages, urlRegex, dom, locals, pending, outVars,
                   connectCalls, closeCalls, browserHeld, pageActions, fnVars>>

\* what the page may add to its DOM while call `at` is awaited
PagePalette(at) ==
    IF at \in {"title", "hints", "modelLabel", "count", "locate"} THEN LoadPalette
    ELSE IF at \in {"press", "phaseA"} THEN GrowPalette
    ELSE {}

\* how many elements the page may have added by the time call `at` settles
GrowLimit(at) ==
    IF at \in {"title", "hints", "modelLabel", "count", "locate"} THEN MaxLoad
    ELSE MaxGrow

\* the page changes while the invocation is suspended: an element is appended
PageAppends ==
    /\ PagePalette(pc) # {}
    /\ Len(dom) < Len(pages[page].dom) + GrowLimit(pc)
    /\ \E el \in PagePalette(pc) : dom' = Append(dom, el)
    /\ UNCHANGED <<pc, context, sigVars, browserPages, urlRegex, locals, pending, outVars,
                   connectCalls, closeCalls, browserHeld, pageActions, fnVars>>

\* the page removes its stop control (generation has ended)
PageRemovesStop ==
    /\ pc \in {"press", "phaseA"}
    /\ \E i \in 1..Len(dom) : dom[i].kind = "stopButton"
    /\ dom' = SelectSeq(dom, LAMBDA el : el.kind # "stopButton")
    /\ UNCHANGED <<pc, context, sigVars, browserPages, urlRegex, locals, pending, outVars,
                   connectCalls, closeCalls, browserHeld, pageActions, fnVars>>

\* the steps of runBridge that an awaited call's completion always allows
Progress ==
    \/ StartEmptyPrompt \/ StartAborted \/ StartConnect
    \/ ConnectFails \/ ConnectReturns \/ FocusReturns
    \/ TitleReturns \/ HintsReturn \/ ModelLabelReturns \/ CountReturns
    \/ IsVisibleReturns
    \/ ClickReturns \/ IsTextAreaReturns \/ FillReturns \/ ClearReturns \/ TypeReturns
    \/ PressReturns \/ PhaseATimesOut \/ AwaitFails \/ CloseReturns \/ CloseFails

Next ==
    \/ StartEmptyPrompt \/ StartAborted \/ StartConnect
    \/ ConnectFails \/ ConnectReturns \/ FocusReturns
    \/ TitleReturns \/ HintsReturn \/ ModelLabelReturns \/ CountReturns
    \/ IsVisibleReturns
    \/ ClickReturns \/ IsTextAreaReturns \/ FillReturns \/ ClearReturns \/ TypeReturns
    \/ PressReturns \/ PhaseATimesOut \/ WaitCrashes \/ AwaitFails
    \/ CloseReturns \/ CloseFails
    \/ Abort \/ FocusChanges \/ PageAppends \/ PageRemovesStop

Spec == Init /\ [][Next]_vars

\* every awaited call settles, and the first wait ends when its time is up
FairSpec == Spec /\ WF_vars(Progress)

(***************************************************************************)
(* The part of runBridge after the first wait (lines 843-865).  The first  *)
(* wait never returns (FirstWaitPredicate is false on every document), so  *)
(* these continuations are no steps of Next.                               *)
(***************************************************************************)
\* lines 828-843: the first wait returns, waitForCompletion is called
PhaseAReturns ==
    /\ pc = "phaseA"
    /\ FirstWaitPredicate
    /\ pageActions' = Append(pageActions, PageCall("waitForFunction", <<"finished">>))
    /\ pc' = "phaseB"
    /\ UNCHANGED <<context, browserPages, urlRegex, dom, sigVars, locals, pending, outVars,
                   connectCalls, closeCalls, browserHeld, fnVars>>

\* lines 843-844: waitForCompletion settles; when it returns the text is read
PhaseBSettles ==
    /\ pc = "phaseB"
    /\ \E e \in {waitForCompletion(dom, strategy.stop, strategy.send)} :
          IF e.thrown
          THEN Finally(e)
          ELSE pc' = "extract" /\ UNCHANGED <<pending, closeCalls>>
    /\ UNCHANGED <<context, browserPages, urlRegex, dom, sigVars, locals, outVars, connectCalls,
                   browserHeld, pageActions, fnVars>>

\* lines 844-868: the text is read; empty text throws, otherwise the five events
\* are pushed and the stream is ended; either way the finally block runs
ExtractReturns ==
    /\ pc = "extract"
    /\ LET text == extractLatestAssistantText(dom, strategy.assistant)
       IN /\ responseText' = text
          /\ IF text = <<>>
             THEN Finally(EmptyResponseError) /\ UNCHANGED <<pushed, endCalls>>
             ELSE /\ pushed' = pushed \o SuccessEvents(text, modelLabel)
                  /\ endCalls' = endCalls + 1
                  /\ Finally(NoThrow)
    /\ UNCHANGED <<context, browserPages, urlRegex, dom, sigVars, prompt, pages, page, profile,
                   strategy, modelLabel, initialCount, countedDom, input, isTextArea,
                   loopVars,
                   caught, connectCalls, browserHeld, pageActions, fnVars>>

(***************************************************************************)
(* The invocation on pages that already show replies, matched by several   *)
(* of the response-block rules.                                            *)
(***************************************************************************)
WaitDoms ==
    { <<El("textareaPrompt", <<>>, TRUE),
        El("assistantTurn", <<"o", "l", "d">>, TRUE),
        El("markdown", <<"o">>, TRUE),
        El("markdown", <<"l", "d">>, TRUE)>>,
      <<El("editableDiv", <<>>, TRUE),
        El("article", <<"o", "l", "d">>, TRUE)>>,
      <<El("textareaPrompt", <<>>, TRUE),
        El("markdown", <<"o", "l", "d">>, TRUE),
        El("sendButton", <<>>, TRUE)>> }

WaitPageLists ==
    {<<>>} \cup
    { <<[closed |-> FALSE, focus |-> "yes", url |-> u, title |-> <<>>,
         titleThrows |-> FALSE, dom |-> d]>> :
        u \in {ChatGptUrl, OtherUrl}, d \in WaitDoms }

InitWait ==
    /\ pc = "start"
    /\ context \in BridgeContexts
    /\ signalAborted \in BOOLEAN
    /\ browserPages \in WaitPageLists
    /\ urlRegex = DEFAULT_URL_REGEX
    /\ BridgeIdle
    /\ client = ClientIdle
    /\ arg = <<>>
    /\ res = <<>>

SpecWait == InitWait /\ [][Next]_vars

(***************************************************************************)
(* The invocation on pages with several input controls, visible or hidden, *)
(* where the set of rules whose visibility probe rejects is fixed with the *)
(* page.                                                                   *)
(***************************************************************************)
LocateControls ==
    { El("textareaPrompt", <<>>, TRUE), El("textareaPrompt", <<>>, FALSE),
      El("editableDiv", <<>>, TRUE), El("editableDiv", <<>>, FALSE) }

LocateDoms == SeqsUpTo(LocateControls, MaxDom)

LocatePageLists ==
    { << [closed |-> FALSE, focus |-> "yes", url |-> u, title |-> <<>>,
          titleThrows |-> FALSE, dom |-> d] >> :
        u \in {ChatGptUrl, OtherUrl}, d \in LocateDoms }

\* the sets of rules whose locator.isVisible() rejects
LocateThrowing ==
    { {},
      {"textarea#prompt-textarea", "#prompt-textarea"},
      ElementSelectors("textareaPrompt"),
      ElementSelectors("textareaPrompt") \cup ElementSelectors("editableDiv") }

\* the prompt plays no part in locating the control: one conversation with a
\* prompt, one without
LocateContexts ==
    { <<>>, <<UserMessage(StringContent(<<" ", "h", "i", "\n">>))>> }

InitLocate ==
    /\ pc = "start"
    /\ context \in LocateContexts
    /\ signalAborted \in BOOLEAN
    /\ browserPages \in {<<>>} \cup LocatePageLists
    /\ urlRegex = DEFAULT_URL_REGEX
    /\ BridgeIdle
    /\ client = ClientIdle
    /\ arg \in { <<t>> : t \in LocateThrowing }
    /\ res = <<>>

SpecLocate == InitLocate /\ [][Next]_vars

(***************************************************************************)
(* The invocation over every conversation, on a page with a plain text     *)
(* field, on a page with a rich editable region, and with no page.         *)
(***************************************************************************)
TurnsPageLists ==
    {<<>>} \cup
    { <<[closed |-> FALSE, focus |-> "yes", url |-> ChatGptUrl, title |-> <<>>,
         titleThrows |-> FALSE, dom |-> <<El(k, <<>>, TRUE)>>]>> :
        k \in {"textareaPrompt", "editableDiv"} }

InitTurns ==
    /\ pc = "start"
    /\ context \in Conversations
    /\ signalAborted \in BOOLEAN
    /\ browserPages \in TurnsPageLists
    /\ urlRegex = DEFAULT_URL_REGEX
    /\ BridgeIdle
    /\ client = ClientIdle
    /\ arg = <<>>
    /\ res = <<>>

SpecTurns == InitTurns /\ [][Next]_vars

(***************************************************************************)
(* The invocation against a browser with no open page, over every          *)
(* conversation: the part of runBridge that the prompt alone decides.      *)
(***************************************************************************)
InitPrompt ==
    /\ pc = "start"
    /\ context \in Conversations
    /\ signalAborted \in BOOLEAN
    /\ browserPages = <<>>
    /\ urlRegex = DEFAULT_URL_REGEX
    /\ BridgeIdle
    /\ client = ClientIdle
    /\ arg = <<>>
    /\ res = <<>>

NextPrompt ==
    \/ StartEmptyPrompt \/ StartAborted \/ StartConnect
    \/ ConnectFails \/ ConnectReturns \/ CloseReturns \/ CloseFails \/ Abort

SpecPrompt == InitPrompt /\ [][NextPrompt]_vars

(***************************************************************************)
(* The pure functions, each applied once to inputs drawn from bounded sets.*)
(***************************************************************************)
Rules == {"a", "b", "c"}

\* inputs of mergeSelectors: the generic list and the override list are any lists
\* of rules, with or without repeated rules; the override list may be undefined
MergeInputs ==
    { [fn |-> "mergeSelectors", base |-> b, specific |-> sp] :
        b \in SeqsUpTo(Rules, MaxList),
        sp \in { [defined |-> TRUE, items |-> l] : l \in SeqsUpTo(Rules, MaxList) }
               \cup { [defined |-> FALSE, items |-> <<>>] } }

\* elements that decide a platform's fingerprint, and one that decides none
DetectPalette ==
    { El(k, <<>>, TRUE) :
        k \in {"textareaPrompt", "assistantTurn", "chatMessages", "modelButton",
               "geminiPane", "paragraph"} }

OtherRegex == [alts |-> {"example.org"}, ignoreCase |-> FALSE]

\* the rule sets a call can resolve: one per registered profile, and the generic one
Strategies ==
    { resolveSelectorStrategy(p) : p \in Range(PLATFORM_PROFILES) \cup {UNKNOWN_PROFILE} }

\* stop and send controls, shown and hidden, and an element that is neither
CompletionPalette ==
    { El(k, <<>>, v) : k \in {"stopButton", "sendButton", "submitButton"},
                       v \in BOOLEAN }
    \cup { El("paragraph", <<>>, TRUE) }

CompletionInputs ==
    { [fn |-> "waitForCompletion", dom |-> d, stop |-> s.stop, send |-> s.send] :
        d \in SeqsUpTo(CompletionPalette, MaxDom), s \in Strategies }

\* reply blocks with text, with blank text and with none, of several rules
ExtractPalette ==
    { El("assistantTurn", t, TRUE) : t \in {<<" ", "a">>, <<"b", "\n">>, <<" ">>} }
    \cup { El("markdown", t, TRUE) : t \in {<<"m">>, <<>>} }
    \cup { El("article", <<"r">>, TRUE), El("paragraph", <<"p">>, TRUE) }

ExtractInputs ==
    { [fn |-> "extractLatestAssistantText", dom |-> d, selectors |-> s.assistant] :
        d \in SeqsUpTo(ExtractPalette, MaxDom), s \in Strategies }

ConstructorOptions ==
    [cdpUrl : {NotGiven(""), Given("ws://remote:9333")},
     urlRegex : {NotGiven(DEFAULT_URL_REGEX), Given(OtherRegex)},
     timeoutMs : {NotGiven(0), Given(5000)}]

\* process.env: the two variables the constructor reads, and a timeout variable
ConstructorEnvs ==
    [cdpUrl : {NotGiven(""), Given("http://10.0.0.2:9222"), Given("")},
     urlRegex : {NotGiven(<<>>), Given(<<>>), Given(<<" ">>),
                 Given(<<" ", "claude.ai", "\n">>), Given(<<"(">>)},
     timeoutMs : {NotGiven(0), Given(30000)}]

ConstructorInputs ==
    { [fn |-> "constructor", options |-> o, env |-> e] :
        o \in ConstructorOptions, e \in ConstructorEnvs }

\* every profile a call can detect, with a page to compare its fingerprint rules to
ResolveInputs ==
    { [fn |-> "resolveSelectorStrategy", profile |-> p, dom |-> d] :
        p \in Range(PLATFORM_PROFILES) \cup {UNKNOWN_PROFILE},
        d \in SeqsUpTo(DetectPalette, MaxDom) }

PureInputs ==
    MergeInputs \cup CompletionInputs \cup ExtractInputs \cup ConstructorInputs
        \cup ResolveInputs

InitPure ==
    /\ pc = "call"
    /\ arg \in PureInputs
    /\ res = <<>>
    /\ context = <<>>
    /\ signalAborted = FALSE
    /\ browserPages = <<>>
    /\ urlRegex = DEFAULT_URL_REGEX
    /\ BridgeIdle
    /\ client = ClientIdle

bridgeVars == <<context, signalAborted, abortSeen, browserPages, urlRegex, dom, prompt, pages,
                page, profile, strategy, modelLabel, initialCount, countedDom, input,
                isTextArea,
                responseText, pageTitle, hintIndex, selectorIndex, pending, caught,
                pushed, endCalls, connectCalls, closeCalls, browserHeld, pageActions>>

\* mergeSelectors(base, specific), and the result merged with the overrides again
ApplyMerge ==
    /\ pc = "call"
    /\ arg.fn = "mergeSelectors"
    /\ res' = [merged |-> mergeSelectors(arg.base, arg.specific),
               again |-> mergeSelectors(mergeSelectors(arg.base, arg.specific),
                                        arg.specific)]
    /\ pc' = "returned"
    /\ UNCHANGED <<arg, kg, reg, client, bridgeVars>>

\* waitForCompletion(page, timeoutMs, stopSelectors, sendSelectors) on a page
\* whose document stays arg.dom
ApplyCompletion ==
    /\ pc = "call"
    /\ arg.fn = "waitForCompletion"
    /\ res' = waitForCompletion(arg.dom, arg.stop, arg.send)
    /\ pc' = "returned"
    /\ UNCHANGED <<arg, kg, reg, client, bridgeVars>>

ApplyExtract ==
    /\ pc = "call"
    /\ arg.fn = "extractLatestAssistantText"
    /\ res' = extractLatestAssistantText(arg.dom, arg.selectors)
    /\ pc' = "returned"
    /\ UNCHANGED <<arg, kg, reg, client, bridgeVars>>

ApplyConstructor ==
    /\ pc = "call"
    /\ arg.fn = "constructor"
    /\ res' = BrowserUniversalProvider(arg.options, arg.env)
    /\ pc' = "returned"
    /\ UNCHANGED <<arg, kg, reg, client, bridgeVars>>

\* resolveSelectorStrategy(profile), and matchesDomHints on its fingerprint rules
ApplyResolve ==
    /\ pc = "call"
    /\ arg.fn = "resolveSelectorStrategy"
    /\ \E st \in {resolveSelectorStrategy(arg.profile)} :
          res' = [strategy |-> st, fingerprinted |-> matchesDomHints(arg.dom, st.domHints)]
    /\ pc' = "returned"
    /\ UNCHANGED <<arg, kg, reg, client, bridgeVars>>

NextPure ==
    \/ ApplyMerge \/ ApplyCompletion \/ ApplyExtract \/ ApplyConstructor
    \/ ApplyResolve

SpecPure == InitPure /\ [][NextPure]_vars

(***************************************************************************)
(* Tab selection (lines 805-807) over lists of pages, closed or open, that *)
(* report focus, report none or cannot be asked, while the user may switch *)
(* tabs between the probes.                                                *)
(***************************************************************************)
SelectPages ==
    { [closed |-> c, focus |-> f, url |-> u, title |-> <<>>, titleThrows |-> FALSE,
       dom |-> <<>>] :
        c \in BOOLEAN, f \in {"yes", "no", "throws"}, u \in {ChatGptUrl, OtherUrl} }

InitSelect ==
    /\ pc = "start"
    /\ context = <<UserMessage(StringContent(<<"h", "i">>))>>
    /\ signalAborted = FALSE
    /\ browserPages \in SeqsUpTo(SelectPages, MaxPages) \ {<<>>}
    /\ urlRegex \in {DEFAULT_URL_REGEX, OtherRegex}
    /\ BridgeIdle
    /\ client = ClientIdle
    /\ arg = <<>>
    /\ res = <<>>

\* runBridge up to the call of page.title() on the page selected
NextSelect ==
    \/ StartConnect \/ ConnectReturns \/ FocusReturns \/ FocusChanges

SpecSelect == InitSelect /\ [][NextSelect]_vars

(***************************************************************************)
(* detectPlatform (line 812) on one open page, over URLs, titles and       *)
(* documents, while the page, still loading, may add elements between the  *)
(* awaited calls.                                                          *)
(***************************************************************************)
DetectPages ==
    { [closed |-> FALSE, focus |-> "yes", url |-> u, title |-> t, titleThrows |-> FALSE,
       dom |-> d] :
        u \in {ChatGptUrl, ClaudeUrl, GeminiUrl, BardUrl, OtherUrl},
        t \in {<<>>, <<"New chat">>, <<"Claude.AI">>},
        d \in SeqsUpTo(DetectPalette, MaxDom) }

InitDetect ==
    /\ pc = "start"
    /\ context = <<UserMessage(StringContent(<<"h", "i">>))>>
    /\ signalAborted = FALSE
    /\ \E pg \in DetectPages : browserPages = <<pg>>
    /\ urlRegex \in {DEFAULT_URL_REGEX, OtherRegex}
    /\ BridgeIdle
    /\ client = ClientIdle
    /\ arg = <<>>
    /\ res = <<>>

\* the page adds an element of DetectPalette while page.title() or a fingerprint
\* probe is awaited
PageLoads ==
    /\ pc \in {"title", "hints"}
    /\ Len(dom) < Len(pages[page].dom) + MaxLoad
    /\ \E el \in DetectPalette : dom' = Append(dom, el)
    /\ UNCHANGED <<pc, context, sigVars, browserPages, urlRegex, locals, pending, outVars,
                   connectCalls, closeCalls, browserHeld, pageActions, fnVars>>

\* runBridge up to the return of detectPlatform
NextDetect ==
    \/ StartConnect \/ ConnectReturns \/ FocusReturns \/ TitleReturns \/ HintsReturn
    \/ PageLoads

SpecDetect == InitDetect /\ [][NextDetect]_vars

(***************************************************************************)
(* loadSettings (ui/storage.ts).  A JSON value is [t, s, n, b]: its kind,  *)
(* and its text, number or truth value; a property that is not there reads *)
(* as JUndefined.  splitRatio is counted in hundredths (0.4 is 40).  A     *)
(* parsed object is the function from the property names to their values.  *)
(***************************************************************************)
JString(str) == [t |-> "string", s |-> str, n |-> 0, b |-> FALSE]

JNumber(num) == [t |-> "number", s |-> <<>>, n |-> num, b |-> FALSE]

JBoolean(bool) == [t |-> "boolean", s |-> <<>>, n |-> 0, b |-> bool]

JNull == [t |-> "null", s |-> <<>>, n |-> 0, b |-> FALSE]

JObject == [t |-> "object", s |-> <<>>, n |-> 0, b |-> FALSE]

JArray == [t |-> "array", s |-> <<>>, n |-> 0, b |-> FALSE]

JUndefined == [t |-> "undefined", s |-> <<>>, n |-> 0, b |-> FALSE]

\* typeof value
TypeOf(value) ==
    IF value.t \in {"null", "object", "array"} THEN "object" ELSE value.t

FieldNames ==
    {"gatewayUrl", "token", "sessionKey", "lastActiveSessionKey", "theme",
     "chatFocusMode", "chatShowThinking", "browserMode", "browserAutoDetect",
     "browserAutoLaunch", "browserNotifyOnDetect", "browserCdpUrl", "browserUrlRegex",
     "splitRatio", "navCollapsed", "navGroupsCollapsed"}

\* lines 25-28
defaultUrl(location) ==
    <<IF location.protocol = "https:" THEN "wss" ELSE "ws", "://", location.host>>

\* lines 30-47
SettingsDefaults(location) ==
    [gatewayUrl |-> JString(defaultUrl(location)),
     token |-> JString(<<>>),
     sessionKey |-> JString(<<"main">>),
     lastActiveSessionKey |-> JString(<<"main">>),
     theme |-> JString(<<"system">>),
     chatFocusMode |-> JBoolean(FALSE),
     chatShowThinking |-> JBoolean(TRUE),
     browserMode |-> JBoolean(FALSE),
     browserAutoDetect |-> JBoolean(TRUE),
     browserAutoLaunch |-> JBoolean(TRUE),
     browserNotifyOnDetect |-> JBoolean(TRUE),
     browserCdpUrl |-> JString(<<>>),
     browserUrlRegex |-> JString(<<>>),
     splitRatio |-> JNumber(60),
     navCollapsed |-> JBoolean(FALSE),
     navGroupsCollapsed |-> JObject]

\* typeof v === "string" && v.trim() ? v.trim() : fallback
TrimmedOr(value, fallback) ==
    IF TypeOf(value) = "string" /\ trim(value.s) # <<>>
    THEN JString(trim(value.s)) ELSE fallback

\* typeof v === "string" ? v : fallback
StringOr(value, fallback) == IF TypeOf(value) = "string" THEN value ELSE fallback

\* typeof v === "boolean" ? v : fallback
BooleanOr(value, fallback) == IF TypeOf(value) = "boolean" THEN value ELSE fallback

\* lines 55-112: the object literal built from the parsed value
SettingsFrom(parsed, defaults) ==
    [gatewayUrl |-> TrimmedOr(parsed.gatewayUrl, defaults.gatewayUrl),
     token |-> StringOr(parsed.token, defaults.token),
     sessionKey |-> TrimmedOr(parsed.sessionKey, defaults.sessionKey),
     lastActiveSessionKey |->
         TrimmedOr(parsed.lastActiveSessionKey,
                   TrimmedOr(parsed.sessionKey, defaults.lastActiveSessionKey)),
     theme |-> IF parsed.theme.t = "string"
                    /\ parsed.theme.s \in {<<"light">>, <<"dark">>, <<"system">>}
               THEN parsed.theme ELSE defaults.theme,
     chatFocusMode |-> BooleanOr(parsed.chatFocusMode, defaults.chatFocusMode),
     chatShowThinking |-> BooleanOr(parsed.chatShowThinking, defaults.chatShowThinking),
     browserMode |-> BooleanOr(parsed.browserMode, defaults.browserMode),
     browserAutoDetect |-> BooleanOr(parsed.browserAutoDetect, defaults.browserAutoDetect),
     browserAutoLaunch |-> BooleanOr(parsed.browserAutoLaunch, defaults.browserAutoLaunch),
     browserNotifyOnDetect |->
         BooleanOr(parsed.browserNotifyOnDetect, defaults.browserNotifyOnDetect),
     browserCdpUrl |-> StringOr(parsed.browserCdpUrl, defaults.browserCdpUrl),
     browserUrlRegex |-> StringOr(parsed.browserUrlRegex, defaults.browserUrlRegex),
     splitRatio |-> IF TypeOf(parsed.splitRatio) = "number"
                         /\ parsed.splitRatio.n >= 40 /\ parsed.splitRatio.n <= 70
                    THEN parsed.splitRatio ELSE defaults.splitRatio,
     navCollapsed |-> BooleanOr(parsed.navCollapsed, defaults.navCollapsed),
     navGroupsCollapsed |->
         IF TypeOf(parsed.navGroupsCollapsed) = "object"
              /\ parsed.navGroupsCollapsed # JNull
         THEN parsed.navGroupsCollapsed ELSE defaults.navGroupsCollapsed]

\* the properties of a parsed value that is no object (a number, a string, true)
NoProperties == [f \in FieldNames |-> JUndefined]

\* lines 50-112, the body of the try block: what it returns, or that it throws.
\* stored.kind is "absent" or "empty" (getItem gives null or ""), "unparsable"
\* (JSON.parse throws), "null" (reading a property of null throws), "scalar" or
\* "object"
TryLoad(stored, defaults) ==
    CASE stored.kind \in {"absent", "empty"} -> [threw |-> FALSE, settings |-> defaults]
      [] stored.kind \in {"unparsable", "null"} -> [threw |-> TRUE, settings |-> defaults]
      [] stored.kind = "scalar" ->
           [threw |-> FALSE, settings |-> SettingsFrom(NoProperties, defaults)]
      [] OTHER -> [threw |-> FALSE, settings |-> SettingsFrom(stored.fields, defaults)]

\* a loadSettings whose try block has no catch
loadSettings_noCatch(stored, location) ==
    TryLoad(stored, SettingsDefaults(location))

\* lines 24-116
loadSettings(stored, location) ==
    IF TryLoad(stored, SettingsDefaults(location)).threw
    THEN [threw |-> FALSE, settings |-> SettingsDefaults(location)]
    ELSE TryLoad(stored, SettingsDefaults(location))

(***************************************************************************)
(* loadSettings on stored values: nothing stored, text that is no JSON,    *)
(* JSON null, a JSON scalar, and objects in which up to MaxBadFields        *)
(* properties of a well-formed record are missing or hold another value.   *)
(***************************************************************************)
StoredRecord ==
    [gatewayUrl |-> JString(<<" ", "g">>),
     token |-> JString(<<"t">>),
     sessionKey |-> JString(<<"s", " ">>),
     lastActiveSessionKey |-> JString(<<"l">>),
     theme |-> JString(<<"light">>),
     chatFocusMode |-> JBoolean(TRUE),
     chatShowThinking |-> JBoolean(FALSE),
     browserMode |-> JBoolean(TRUE),
     browserAutoDetect |-> JBoolean(FALSE),
     browserAutoLaunch |-> JBoolean(FALSE),
     browserNotifyOnDetect |-> JBoolean(FALSE),
     browserCdpUrl |-> JString(<<"c">>),
     browserUrlRegex |-> JString(<<"r">>),
     splitRatio |-> JNumber(50),
     navCollapsed |-> JBoolean(TRUE),
     navGroupsCollapsed |-> JObject]

StoredPalette ==
    {JUndefined, JNull, JArray, JBoolean(TRUE), JNumber(40), JNumber(71),
     JString(<<" ", "\n">>), JString(<<" ", "x", " ">>), JString(<<"dark">>)}

\* one field of each kind, and the two session keys: the fields that are varied
\* together
VariedFields ==
    {"gatewayUrl", "token", "sessionKey", "lastActiveSessionKey", "theme",
     "chatFocusMode", "splitRatio", "navGroupsCollapsed"}

\* the sets of fields that deviate from StoredRecord: one field, whichever, or
\* up to MaxBadFields of the varied fields
StoredDeviations ==
    {S \in SUBSET FieldNames :
        \/ Cardinality(S) <= 1
        \/ Cardinality(S) <= MaxBadFields /\ S \subseteq VariedFields}

\* StoredRecord with the fields of D given the values g
StoredObject(D, g) ==
    [f \in FieldNames |-> IF f \in D THEN g[f] ELSE StoredRecord[f]]

StoredKinds == {"absent", "empty", "unparsable", "null", "scalar"}

Locations ==
    { [protocol |-> "https:", host |-> "gw.example"],
      [protocol |-> "http:", host |-> "localhost:18789"] }

InitSettings ==
    /\ pc = "call"
    /\ \E l \in Locations :
          \/ \E k \in StoredKinds :
                arg = [fn |-> "loadSettings",
                       stored |-> [kind |-> k, fields |-> NoProperties],
                       location |-> l]
          \/ \E D \in StoredDeviations : \E g \in [D -> StoredPalette] :
                arg = [fn |-> "loadSettings",
                       stored |-> [kind |-> "object", fields |-> StoredObject(D, g)],
                       location |-> l]
    /\ res = <<>>
    /\ context = <<>>
    /\ signalAborted = FALSE
    /\ browserPages = <<>>
    /\ urlRegex = DEFAULT_URL_REGEX
    /\ BridgeIdle
    /\ client = ClientIdle

\* JSON.stringify(next) as localStorage keeps it and JSON.parse reads it back:
\* an object with the properties of next that are defined
JSONStringify(next) ==
    [kind |-> "object",
     fields |-> [f \in FieldNames |-> IF next[f].t = "undefined" THEN JUndefined
                                       ELSE next[f]]]

\* lines 118-120: the item saveSettings(next) leaves in localStorage
saveSettings(next) == JSONStringify(next)

\* what the interface changes in the settings it loaded before it saves them:
\* nothing, the theme and the split, the token and the navigation, the session
SavedEdits ==
    { [f \in {} |-> JNull],
      [theme |-> JString(<<"dark">>), splitRatio |-> JNumber(45)],
      [token |-> JString(<<"secret">>), navCollapsed |-> JBoolean(TRUE)],
      [sessionKey |-> JString(<<"work">>)] }

\* { ...settings, ...edit }
WithEdit(settings, edit) ==
    [f \in FieldNames |-> IF f \in DOMAIN edit THEN edit[f] ELSE settings[f]]

\* localStorage holds arg.stored; loadSettings() is called
ApplyLoad ==
    /\ pc = "call"
    /\ arg.fn = "loadSettings"
    /\ res' = loadSettings(arg.stored, arg.location)
    /\ pc' = "returned"
    /\ UNCHANGED <<arg, kg, reg, client, bridgeVars>>

\* the interface saves the settings it loaded, with an edit; the next
\* loadSettings() reads what was saved
ApplySave ==
    /\ pc = "returned"
    /\ arg.fn = "loadSettings"
    /\ \E edit \in SavedEdits :
          arg' = [arg EXCEPT !.stored = saveSettings(WithEdit(res.settings, edit))]
    /\ pc' = "call"
    /\ UNCHANGED <<res, kg, reg, client, bridgeVars>>

NextSettings == ApplyLoad \/ ApplySave

SpecSettings == InitSettings /\ [][NextSettings]_vars

(***************************************************************************)
(* Calls of connect() and getActivePage() on one BrowserClient.            *)
(***************************************************************************)
InFlight(call) == call.pc \in {"probe1", "launch", "probe2", "connecting", "pages"}

Completed(call) == call.pc \in {"returned", "thrown"}

\* connect() has resolved inside the call: connect() returns, getActivePage()
\* goes on to browser.pages()
AfterConnect(call, browser) ==
    IF call.kind = "connect"
    THEN [call EXCEPT !.pc = "returned", !.result = browser]
    ELSE [call EXCEPT !.pc = "pages", !.result = browser]

\* a connect() that does not look at this.browser
CallStarts_alwaysProbes(c, kind) ==
    /\ pc = "client"
    /\ ~InFlight(client.calls[c])
    /\ client.started < MaxClientCalls
    /\ client.discipline = "sequential" =>
           \A o \in 1..MaxOverlap : ~InFlight(client.calls[o])
    /\ client.discipline = "overlapping" =>
           \A o \in 1..MaxOverlap : ~Completed(client.calls[o])
    /\ client' = [client EXCEPT
                    !.started = @ + 1,
                    !.probes = @ + 1,
                    !.calls[c] = [IdleCall EXCEPT !.pc = "probe1", !.kind = kind]]
    /\ UNCHANGED <<pc, arg, res, kg, reg, bridgeVars>>

\* lines 33-38 (and 56): a call is made; with this.browser set connect() returns
\* it, otherwise the first fetchVersionInfo is started
CallStarts(c, kind) ==
    /\ pc = "client"
    /\ ~InFlight(client.calls[c])
    /\ client.started < MaxClientCalls
    /\ client.discipline = "sequential" =>
           \A o \in 1..MaxOverlap : ~InFlight(client.calls[o])
    /\ client.discipline = "overlapping" =>
           \A o \in 1..MaxOverlap : ~Completed(client.calls[o])
    /\ IF client.browser # 0
       THEN client' = [client EXCEPT
                         !.started = @ + 1,
                         !.calls[c] = AfterConnect([IdleCall EXCEPT !.kind = kind],
                                                   client.browser)]
       ELSE client' = [client EXCEPT
                         !.started = @ + 1,
                         !.probes = @ + 1,
                         !.calls[c] = [IdleCall EXCEPT !.pc = "probe1", !.kind = kind]]
    /\ UNCHANGED <<pc, arg, res, kg, reg, bridgeVars>>

\* lines 38-43: the first probe returns; with a debugger URL the second
\* fetchVersionInfo is started at once; without one launchChrome() spawns Chrome
\* and the call is suspended at `await this.launchChrome()`
FirstProbeReturns(c) ==
    /\ pc = "client"
    /\ client.calls[c].pc = "probe1"
    /\ \E found \in VersionInfoOutcomes(client.chrome) :
          IF found
          THEN client' = [client EXCEPT
                            !.probes = @ + 1,
                            !.calls[c].first = "found",
                            !.calls[c].pc = "probe2"]
          ELSE client' = [client EXCEPT
                            !.spawned = @ + 1,
                            !.chrome = IF @ = "down" THEN "starting" ELSE @,
                            !.calls[c].first = "missing",
                            !.calls[c].launches = @ + 1,
                            !.calls[c].pc = "launch"]
    /\ UNCHANGED <<pc, arg, res, kg, reg, bridgeVars>>

\* lines 40-43: the call resumes after `await this.launchChrome()`; the second
\* fetchVersionInfo is started
LaunchReturns(c) ==
    /\ pc = "client"
    /\ client.calls[c].pc = "launch"
    /\ client' = [client EXCEPT !.probes = @ + 1, !.calls[c].pc = "probe2"]
    /\ UNCHANGED <<pc, arg, res, kg, reg, bridgeVars>>

\* lines 43-51: the second probe returns; without a debugger URL connect() throws,
\* otherwise puppeteer.connect is called
SecondProbeReturns(c) ==
    /\ pc = "client"
    /\ client.calls[c].pc = "probe2"
    /\ \E found \in VersionInfoOutcomes(client.chrome) :
          IF found
          THEN client' = [client EXCEPT
                            !.connectCalls = @ + 1,
                            !.calls[c].result = client.connectCalls + 1,
                            !.calls[c].pc = "connecting"]
          ELSE client' = [client EXCEPT
                            !.calls[c].pc = "thrown",
                            !.calls[c].error = "Failed to discover Chrome CDP endpoint"]
    /\ UNCHANGED <<pc, arg, res, kg, reg, bridgeVars>>

\* lines 51-52: puppeteer.connect resolves with a new Browser (numbered by the
\* connect call that opened it), kept in this.browser
PuppeteerConnects(c) ==
    /\ pc = "client"
    /\ client.calls[c].pc = "connecting"
    /\ client' = [client EXCEPT
                    !.browser = client.calls[c].result,
                    !.calls[c] = AfterConnect(@, client.calls[c].result)]
    /\ UNCHANGED <<pc, arg, res, kg, reg, bridgeVars>>

\* line 51: puppeteer.connect rejects
PuppeteerRejects(c) ==
    /\ pc = "client"
    /\ client.calls[c].pc = "connecting"
    /\ client' = [client EXCEPT !.calls[c].pc = "thrown",
                                !.calls[c].result = 0,
                                !.calls[c].error = "puppeteer.connect"]
    /\ UNCHANGED <<pc, arg, res, kg, reg, bridgeVars>>

\* lines 57-67: browser.pages() returns inside getActivePage()
PagesReturn(c) ==
    /\ pc = "client"
    /\ client.calls[c].pc = "pages"
    /\ IF ActivePageIndex(client.pages) = 0
       THEN client' = [client EXCEPT
                         !.calls[c].pc = "thrown",
                         !.calls[c].result = 0,
                         !.calls[c].error = "No Chrome pages available to attach to."]
       ELSE client' = [client EXCEPT !.calls[c].pc = "returned"]
    /\ UNCHANGED <<pc, arg, res, kg, reg, bridgeVars>>

\* the Chrome that was spawned opens its debugging endpoint
ChromeStarts ==
    /\ pc = "client"
    /\ client.chrome = "starting"
    /\ client' = [client EXCEPT !.chrome = "up"]
    /\ UNCHANGED <<pc, arg, res, kg, reg, bridgeVars>>

ClientPages == {<<>>, <<OtherUrl>>, <<OtherUrl, ChatGptUrl>>}

InitClient(discipline) ==
    /\ pc = "client"
    /\ arg = <<>>
    /\ res = <<>>
    /\ context = <<>>
    /\ signalAborted = FALSE
    /\ browserPages = <<>>
    /\ urlRegex = DEFAULT_URL_REGEX
    /\ BridgeIdle
    /\ \E chrome \in {"down", "up"}, urls \in ClientPages :
          client = [ClientIdle EXCEPT !.chrome = chrome, !.pages = urls,
                                      !.discipline = discipline]

NextClient ==
    \/ \E c \in 1..MaxOverlap, kind \in {"connect", "getActivePage"} : CallStarts(c, kind)
    \/ \E c \in 1..MaxOverlap : FirstProbeReturns(c)
    \/ \E c \in 1..MaxOverlap : LaunchReturns(c)
    \/ \E c \in 1..MaxOverlap : SecondProbeReturns(c)
    \/ \E c \in 1..MaxOverlap : PuppeteerConnects(c)
    \/ \E c \in 1..MaxOverlap : PuppeteerRejects(c)
    \/ \E c \in 1..MaxOverlap : PagesReturn(c)
    \/ ChromeStarts

\* every call is made when no other call is in flight
SpecClientSeq == InitClient("sequential") /\ [][NextClient]_vars

\* every call is made before any call has completed
SpecClient == InitClient("overlapping") /\ [][NextClient]_vars

(***************************************************************************)
(* A process that calls registerBrowserUniversalProvider several times.    *)
(***************************************************************************)
InitRegister ==
    /\ pc = "register"
    /\ arg = <<>>
    /\ res = <<>>
    /\ context = <<>>
    /\ signalAborted = FALSE
    /\ browserPages = <<>>
    /\ urlRegex = DEFAULT_URL_REGEX
    /\ BridgeIdle
    /\ client = ClientIdle

\* one call of registerBrowserUniversalProvider(options)
Register ==
    /\ pc = "register"
    /\ reg.calls < MaxRegs
    /\ \E options \in ConstructorOptions, env \in ConstructorEnvs :
          \E after \in {registerBrowserUniversalProvider(reg, options, env)} :
              reg' = [after EXCEPT !.calls = reg.calls + 1,
                                  !.last = <<[options |-> options, env |-> env]>>]
    /\ UNCHANGED <<pc, arg, res, kg, client, bridgeVars>>

NextRegister == Register

SpecRegister == InitRegister /\ [][NextRegister]_vars

(***************************************************************************)
(* The knowledge-graph store under a sequence of persist calls.            *)
(***************************************************************************)
InitKg ==
    /\ pc = "kg"
    /\ arg = <<>>
    /\ res = <<>>
    /\ context = <<>>
    /\ signalAborted = FALSE
    /\ browserPages = <<>>
    /\ urlRegex = DEFAULT_URL_REGEX
    /\ BridgeIdle
    /\ client = ClientIdle

\* one call of persistKnowledgeGraphTurn, awaited by its caller
Persist ==
    /\ pc = "kg"
    /\ kg.calls < MaxTurns
    /\ \E config \in KgConfigs, turn \in KgTurns, outcome \in KgOutcomes :
          \E after \in {persistKnowledgeGraphTurn([kg EXCEPT !.rejected = FALSE],
                                                  config, turn, outcome)} :
              kg' = [after EXCEPT !.calls = kg.calls + 1,
                                  !.last = [config |-> config, turn |-> turn]]
    /\ UNCHANGED <<pc, arg, res, reg, client, bridgeVars>>

NextKg == Persist

SpecKg == InitKg /\ [][NextKg]_vars

(***************************************************************************)
(* Properties.                                                             *)
(***************************************************************************)
TerminalTypes == {"done", "error"}

\* positions of the terminal events among the pushed events
TerminalPositions(events) == {i \in 1..Len(events) : events[i].type \in TerminalTypes}

TypesOf(events) == [i \in 1..Len(events) |-> events[i].type]

AllWhitespace(t) == \A i \in 1..Len(t) : t[i] \in Whitespace

\* C1: in every invocation exactly one terminal event (done or error) is pushed,
\* it is the last event pushed, and this holds whatever the pipeline's outcome,
\* a rejection of browser.close() included.
C1_ExactlyOneTerminalEvent ==
    /\ Cardinality(TerminalPositions(pushed)) <= 1
    /\ \A i \in TerminalPositions(pushed) : i = Len(pushed)
    /\ pc = "done" => Cardinality(TerminalPositions(pushed)) = 1

\* an invocation that failed at a stage and whose browser.close() then rejected
C1_Witness ==
    /\ pc = "done"
    /\ pending = InputNotFoundError
    /\ caught = ErrorOf(<<"browser.close", ": Target closed">>)
    /\ Len(pushed) = 1
    /\ pushed[1].type = "error"
    /\ endCalls = 1

\* the latest user turn of the conversation holds only whitespace or no text
BlankLatestUserTurn(messages) ==
    \E i \in 1..Len(messages) :
        /\ messages[i].role = "user"
        /\ \A j \in (i + 1)..Len(messages) : messages[j].role # "user"
        /\ IF messages[i].content.isString
           THEN AllWhitespace(messages[i].content.text)
           ELSE \A k \in 1..Len(messages[i].content.parts) :
                    messages[i].content.parts[k].type = "text"
                        => AllWhitespace(messages[i].content.parts[k].text)

\* C2: when the latest user turn is blank (whitespace only or no text, as a string
\* or as a list of parts), connectOverCDP is never called and the only event
\* pushed is one error event, whatever the earlier turns hold.
C2_BlankLatestTurnNeverConnects ==
    BlankLatestUserTurn(context) =>
        /\ connectCalls = 0
        /\ pc = "done" => Len(pushed) = 1 /\ pushed[1].type = "error"

\* the submit key has been pressed
SubmitPressed == PageCall("press", <<"Enter">>) \in Range(pageActions)

\* the page answered the prompt: after the submit key a response-block rule selects
\* more elements than the baseline counted, no stop control is visible, a send
\* control is visible or there is none, and the latest reply has text
PageAnswered ==
    /\ SubmitPressed
    /\ ResponseStarted(dom, strategy.assistant, Given(initialCount))
    /\ CompletionReached(dom, Given(strategy.stop), Given(strategy.send)) = "true"
    /\ extractLatestAssistantText(dom, strategy.assistant) # <<>>

\* no call of the invocation was failed by the browser: nothing was thrown, or the
\* only failure is a wait of the invocation that gave up
NoCallCrashed == caught \in {NoThrow, TimeoutError("page.waitForFunction")}

\* the invocation finished on a page that answered, with no call failed
FullSuccess == pc = "done" /\ prompt # <<>> /\ PageAnswered /\ NoCallCrashed

\* C3: on full success the events pushed are exactly start, text_start, one
\* text_delta carrying the whole scraped text, text_end carrying the same text,
\* and done carrying a message with that text and stopReason "stop".
C3_SuccessSequence ==
    FullSuccess =>
        LET text == extractLatestAssistantText(dom, strategy.assistant)
        IN /\ TypesOf(pushed) = <<"start", "text_start", "text_delta", "text_end", "done">>
           /\ pushed[3].delta = text
           /\ pushed[4].content = text
           /\ pushed[5].message.text = text
           /\ pushed[5].message.stopReason = "stop"
           /\ pushed[5].reason = "stop"
           /\ \A i \in 1..4 : pushed[i].partial = pushed[5].message

\* C4: once connectOverCDP has returned a browser, browser.close() is called exactly
\* once before the invocation finishes, on the success path and on every failure
\* path, and it is never called without a browser or before the pipeline has left
\* the inner try.
C4_ChannelClosedExactlyOnce ==
    /\ closeCalls <= 1
    /\ closeCalls = 1 => browserHeld
    /\ (browserHeld /\ pc \in {"close", "done"}) => closeCalls = 1
    /\ (browserHeld /\ pc \notin {"close", "done"}) => closeCalls = 0

C4_Witness ==
    /\ pc = "done"
    /\ browserHeld
    /\ closeCalls = 1
    /\ caught = InputNotFoundError

\* C5: when connectOverCDP rejects, the only event pushed is one error event with
\* stopReason "error", the stream is ended once, and there is no browser to close.
C5_ConnectFailureIsOneErrorEvent ==
    (pc = "done" /\ connectCalls = 1 /\ ~browserHeld) =>
        /\ Len(pushed) = 1
        /\ pushed[1].type = "error"
        /\ pushed[1].reason = "error"
        /\ pushed[1].error.stopReason = "error"
        /\ endCalls = 1
        /\ closeCalls = 0

C5_Witness ==
    /\ pc = "done"
    /\ connectCalls = 1
    /\ ~browserHeld
    /\ caught = ErrorOf(<<"browserType.connectOverCDP", ": Target closed">>)
    /\ Len(pushed) = 1

\* C6: every failure of the pipeline ends as the single terminal event, an error
\* event whose text carries the message of that failure: the failure thrown inside
\* the inner try if there is one, otherwise the one the outer catch received.
C6_EveryFailureIsTheSingleErrorEvent ==
    (pc = "done" /\ (pending.thrown \/ caught.thrown)) =>
        LET failure == IF pending.thrown THEN pending ELSE caught
        IN /\ Len(pushed) = 1
           /\ pushed[1].type = "error"
           /\ pushed[1].error.stopReason = "error"
           /\ pushed[1].error.text = <<"Browser universal error: ">> \o failure.message

\* C7: every invocation eventually finishes, and whenever it has finished a
\* terminal event is the last event pushed and the stream has been ended.
C7_EventuallyTerminalAndEnded ==
    /\ <>(pc = "done")
    /\ [](pc = "done" =>
            /\ endCalls >= 1
            /\ pushed # <<>>
            /\ pushed[Len(pushed)].type \in TerminalTypes)

C7_Witness ==
    /\ pc = "done"
    /\ endCalls = 1
    /\ caught = TimeoutError("page.waitForFunction")
    /\ pushed[Len(pushed)].type = "error"

\* C8: the signal is read once, before the channel is opened.  If it is aborted
\* then, connectOverCDP is never called and the invocation ends with the one error
\* event of the abort; if it is not, the abort diagnostic is never thrown and
\* never reported, however the signal changes later.
C8_CancellationCheckedOnceBeforeConnect ==
    /\ abortSeen = "yes" =>
           /\ connectCalls = 0
           /\ ~browserHeld
           /\ pc = "done"
           /\ Len(pushed) = 1
           /\ pushed[1].type = "error"
           /\ pushed[1].error.text =
                  <<"Browser universal error: ", "Browser universal run aborted">>
    /\ connectCalls > 0 => abortSeen = "no"
    /\ abortSeen = "no" =>
           /\ caught # AbortError
           /\ pending # AbortError
           /\ \A i \in 1..Len(pushed) :
                  pushed[i].type = "error" =>
                      pushed[i].error.text #
                          <<"Browser universal error: ", "Browser universal run aborted">>

\* the signal was raised after the check, the invocation went on to submit the
\* prompt and ended as it does without a signal
C8_Witness ==
    /\ pc = "done"
    /\ signalAborted
    /\ abortSeen = "no"
    /\ SubmitPressed
    /\ caught = TimeoutError("page.waitForFunction")
    /\ Len(pushed) = 1

\* the profile at position i of the registry has a URL hint that matches the
\* page's URL or title
UrlOrTitleHinted(i, url, title) ==
    \E h \in Range(PLATFORM_PROFILES[i].urlHints) :
        \E piece \in Range(url) \cup Range(title) : toLowerCase(piece) = h

\* the DOM holds an element that a fingerprint rule of profile i selects
Fingerprinted(i, d) ==
    \E sel \in Range(PLATFORM_PROFILES[i].selectors.domHints) :
        \E k \in 1..Len(d) : sel \in ElementSelectors(d[k].kind)

\* C9: detectPlatform prefers the DOM fingerprint over the URL: when the URL or
\* title matches a hint of profile X and the DOM matches, from the call to the
\* return, the fingerprint rules of profile Y only, the result is Y; and when
\* URL-matched profiles fingerprint-match, the same ones from the call to the
\* return, the result is the first of them in registry order.  (The page only
\* adds elements while detectPlatform runs: what a document matches when
\* detectPlatform is called it matches until the return, and what it does not
\* match at the return it never matched.)
C9_FingerprintBeatsUrl ==
    pc = "modelLabel" =>
        LET n == Len(PLATFORM_PROFILES)
            url == pages[page].url
            atCall == pages[page].dom
            bothAtCall == {i \in 1..n : /\ UrlOrTitleHinted(i, url, pageTitle)
                                        /\ Fingerprinted(i, atCall)}
            bothAtReturn == {i \in 1..n : /\ UrlOrTitleHinted(i, url, pageTitle)
                                          /\ Fingerprinted(i, dom)}
        IN /\ \A x, y \in 1..n :
                  ( /\ x # y
                    /\ UrlOrTitleHinted(x, url, pageTitle)
                    /\ Fingerprinted(y, atCall)
                    /\ \A z \in 1..n : z # y => ~Fingerprinted(z, dom) )
                  => profile = PLATFORM_PROFILES[y].id
           /\ (bothAtCall # {} /\ bothAtReturn = bothAtCall) =>
                  profile = PLATFORM_PROFILES[CHOOSE i \in bothAtCall :
                                                 \A j \in bothAtCall : i <= j].id

\* a chatgpt.com page titled "New chat" that shows Claude's message pane, and adds
\* a paragraph while it is probed, is detected as claude
C9_Witness ==
    /\ pc = "modelLabel"
    /\ pages[page].url = ChatGptUrl
    /\ pageTitle = <<"New chat">>
    /\ pages[page].dom = <<El("chatMessages", <<>>, TRUE)>>
    /\ dom = <<El("chatMessages", <<>>, TRUE), El("paragraph", <<>>, TRUE)>>
    /\ profile = "claude"

\* position of the first occurrence of x in s
FirstPosition(s, x) == CHOOSE i \in 1..Len(s) : s[i] = x /\ \A j \in 1..(i - 1) : s[j] # x

\* no element occurs twice in the list
NoDuplicates(s) == \A i, j \in 1..Len(s) : s[i] = s[j] => i = j

SomeElementVisible(d, selectors) ==
    \E sel \in Range(selectors) :
        \E k \in 1..Len(d) : sel \in ElementSelectors(d[k].kind) /\ d[k].visible

\* some rule of the list selects an element of the DOM
SomeElementMatches(d, selectors) ==
    \E sel \in Range(selectors) :
        \E k \in 1..Len(d) : sel \in ElementSelectors(d[k].kind)

\* C11: the second wait reports finished (waitForCompletion returns) exactly when
\* no stop rule selects a visible element and (some send rule selects a visible
\* element or no send rule selects any element).
C11_FinishedIffNoStopVisibleAndSendVisibleOrAbsent ==
    (pc = "returned" /\ arg.fn = "waitForCompletion") =>
        (res = NoThrow) = ( /\ ~SomeElementVisible(arg.dom, arg.stop)
                            /\ \/ SomeElementVisible(arg.dom, arg.send)
                               \/ ~SomeElementMatches(arg.dom, arg.send) )

\* positions of the elements of the DOM that rule sel selects
MatchPositions(d, sel) == {k \in 1..Len(d) : sel \in ElementSelectors(d[k].kind)}

\* those of them whose text is not blank
NonBlankPositions(d, sel) == {k \in MatchPositions(d, sel) : ~AllWhitespace(d[k].text)}

\* C12: extraction returns the trimmed text of the last element selected by the
\* first rule, in declared order, that selects at least one element; never the
\* text of an earlier element, never that of an element of a later rule.
C12_LastElementOfFirstMatchingRule ==
    (pc = "returned" /\ arg.fn = "extractLatestAssistantText") =>
        LET rules == {i \in 1..Len(arg.selectors) :
                         MatchPositions(arg.dom, arg.selectors[i]) # {}}
        IN IF rules = {} THEN res = <<>>
           ELSE LET i == CHOOSE x \in rules : \A y \in rules : x <= y
                    ks == MatchPositions(arg.dom, arg.selectors[i])
                    k == CHOOSE x \in ks : \A y \in ks : y <= x
                IN res = trim(arg.dom[k].text)

\* C12 amended: extraction returns the trimmed text of the last element with
\* non-blank text selected by the first rule, in declared order, that selects an
\* element with non-blank text; it returns the empty text when no rule does.
C12_LastNonBlankOfFirstRuleWithText ==
    (pc = "returned" /\ arg.fn = "extractLatestAssistantText") =>
        LET rules == {i \in 1..Len(arg.selectors) :
                         NonBlankPositions(arg.dom, arg.selectors[i]) # {}}
        IN IF rules = {} THEN res = <<>>
           ELSE LET i == CHOOSE x \in rules : \A y \in rules : x <= y
                    ks == NonBlankPositions(arg.dom, arg.selectors[i])
                    k == CHOOSE x \in ks : \A y \in ks : y <= x
                IN res = trim(arg.dom[k].text)

C12_Witness ==
    /\ pc = "returned"
    /\ arg.fn = "extractLatestAssistantText"
    /\ arg.dom = <<El("assistantTurn", <<" ", "a">>, TRUE),
                   El("assistantTurn", <<"b", "\n">>, TRUE)>>
    /\ res = <<"b">>

\* the environment's pattern text is set and, trimmed, is a pattern RegExp accepts
ValidEnvPattern(v) ==
    /\ v.defined
    /\ ~AllWhitespace(v.value)
    /\ \A i \in 1..Len(v.value) : v.value[i] \notin InvalidPatterns

\* the pattern compiled from the environment's text
EnvPattern(v) ==
    [alts |-> {v.value[i] : i \in {j \in 1..Len(v.value) : v.value[j] \notin Whitespace}},
     ignoreCase |-> FALSE]

\* C13: each of the endpoint URL, the URL pattern and the timeout is the call-time
\* option if given, else the environment override if set (and valid), else the
\* default.
C13_OptionThenEnvironmentThenDefault ==
    (pc = "returned" /\ arg.fn = "constructor") =>
        /\ res.cdpUrl =
               IF arg.options.cdpUrl.defined THEN arg.options.cdpUrl.value
               ELSE IF arg.env.cdpUrl.defined THEN arg.env.cdpUrl.value
               ELSE DEFAULT_CDP_URL
        /\ res.urlRegex =
               IF arg.options.urlRegex.defined THEN arg.options.urlRegex.value
               ELSE IF ValidEnvPattern(arg.env.urlRegex) THEN EnvPattern(arg.env.urlRegex)
               ELSE DEFAULT_URL_REGEX
        /\ res.timeoutMs =
               IF arg.options.timeoutMs.defined THEN arg.options.timeoutMs.value
               ELSE IF arg.env.timeoutMs.defined THEN arg.env.timeoutMs.value
               ELSE DEFAULT_TIMEOUT_MS

\* number of page calls of the invocation that satisfy test
CountCalls(test(_)) == Cardinality({i \in 1..Len(pageActions) : test(pageActions[i])})

\* C14: nothing is retried.  In one invocation connectOverCDP is called at most
\* once, the input is clicked, the prompt delivered and the submit key pressed at
\* most once each, each of the two waits is started at most once, browser.close()
\* is called at most once; the step that fails performs no page action, and once a
\* step has failed no page action and no connect follows.
C14_NoRetry ==
    /\ [](/\ connectCalls <= 1
          /\ closeCalls <= 1
          /\ CountCalls(LAMBDA c : c.op = "click") <= 1
          /\ CountCalls(LAMBDA c : c.op \in {"fill", "type"} /\ c.text = prompt) <= 1
          /\ CountCalls(LAMBDA c : c.op = "press") <= 1
          /\ CountCalls(LAMBDA c : c = PageCall("waitForFunction", <<"started">>)) <= 1
          /\ CountCalls(LAMBDA c : c = PageCall("waitForFunction", <<"finished">>)) <= 1)
    /\ [][ (pending.thrown \/ caught.thrown \/ pending'.thrown \/ caught'.thrown)
             => (pageActions' = pageActions /\ connectCalls' = connectCalls) ]_vars

C14_Witness ==
    /\ pc = "done"
    /\ caught = TimeoutError("page.waitForFunction")
    /\ connectCalls = 1
    /\ closeCalls = 1
    /\ CountCalls(LAMBDA c : c.op = "press") = 1
    /\ pageActions[Len(pageActions)] = PageCall("waitForFunction", <<"started">>)

\* the part of the store that outlives a call: the cached handle and the file system
KgStore(k) == <<k.cachedDb, k.dirs, k.files, k.opens>>

\* C15: a call of persistKnowledgeGraphTurn with config.enabled false opens no
\* database, creates no directory, file or schema, inserts no row, leaves the
\* cached handle as it was, and does not reject, whatever the turn record.
C15_DisabledPersistIsNoOp ==
    [][ (kg'.calls = kg.calls + 1 /\ ~kg'.last.config.enabled)
          => (KgStore(kg') = KgStore(kg) /\ ~kg'.rejected) ]_vars

C15_Witness ==
    /\ kg.calls = 2
    /\ ~kg.last.config.enabled
    /\ kg.cachedDb.defined
    /\ kg.last.config.dbPath # kg.cachedDb.value
    /\ Len(kg.files[kg.cachedDb.value].rows) = 1
    /\ ~kg.files[kg.last.config.dbPath].exists

\* number of elements of the DOM that some response-block rule selects
ReplyBlocks(d, selectors) ==
    Cardinality({k \in 1..Len(d) :
                    \E sel \in Range(selectors) : sel \in ElementSelectors(d[k].kind)})

\* the first wait of the invocation has completed: the second wait was started
PhaseACompleted == PageCall("waitForFunction", <<"finished">>) \in Range(pageActions)

\* no element that a response-block rule selects has been added to the document
\* since the baseline was taken
NoNewReplyBlock ==
    ReplyBlocks(dom, strategy.assistant) <= ReplyBlocks(countedDom, strategy.assistant)

UserTurns(messages) == {i \in 1..Len(messages) : messages[i].role = "user"}

\* the text of one turn: the trimmed string, or the text parts joined and trimmed
TurnText(message) ==
    IF message.content.isString THEN trim(message.content.text)
    ELSE trim(join(TextsOfParts(message.content.parts), <<"\n">>))

\* C17: the prompt delivered to the page (by fill or by type) is the text of the
\* most recent user-role turn of the conversation, never that of an earlier turn.
C17_PromptIsLatestUserTurn ==
    \A c \in Range(pageActions) :
        (c.op \in {"fill", "type"} /\ c.text # <<>>) =>
            /\ UserTurns(context) # {}
            /\ LET i == CHOOSE x \in UserTurns(context) :
                            \A y \in UserTurns(context) : y <= x
               IN c.text = TurnText(context[i])

\* the least element of a non-empty set of positions
Least(S) == CHOOSE x \in S : \A y \in S : x <= y

\* C18: the pages that are not closed are asked for focus in order, one after the
\* other; the tab selected is the first of them that reports focus (closed pages
\* and pages whose focus probe throws are skipped); when none does, the first open
\* page whose URL matches the fallback pattern; failing that, the first open page.
C18_TabSelectionPriority ==
    /\ [][ (pc' = "focus" /\ (pc # "focus" \/ page' # page)) =>
              (LET open == {i \in 1..Len(pages') : ~pages'[i].closed}
                   after == {i \in open : pc = "focus" => i > page}
               IN (pc = "focus" => pages[page].focus # "yes")
                    /\ after # {}
                    /\ page' = Least(after)) ]_vars
    /\ [][ (pc \in {"connect", "focus"} /\ pc' = "title") =>
              (LET ps == pages'
                   open == {i \in 1..Len(ps) : ~ps[i].closed}
                   matching == {i \in open : \E k \in 1..Len(ps[i].url) :
                                   \/ ps[i].url[k] \in urlRegex.alts
                                   \/ /\ urlRegex.ignoreCase
                                      /\ toLowerCase(ps[i].url[k]) \in urlRegex.alts}
               IN IF pc = "focus" /\ pages[page].focus = "yes" THEN page' = page
                  ELSE IF \E i \in open : pc = "focus" /\ i > page THEN FALSE
                  ELSE IF matching # {} THEN page' = Least(matching)
                  ELSE IF open # {} THEN page' = Least(open)
                  ELSE TRUE) ]_vars

\* no profile of the registry fingerprint-matches the DOM
NoFingerprint(d) == \A i \in 1..Len(PLATFORM_PROFILES) : ~Fingerprinted(i, d)

\* C19: when no profile fingerprint-matches the page, detectPlatform returns, if
\* the fallback URL pattern matches the URL, the profile whose URL hints matched
\* the page's URL or title, and otherwise the unknown profile.
C19_FallbackToUrlOrTitleHintedProfile ==
    (pc = "modelLabel" /\ NoFingerprint(dom)) =>
        LET hinted == {i \in 1..Len(PLATFORM_PROFILES) :
                          UrlOrTitleHinted(i, pages[page].url, pageTitle)}
        IN IF RegexTest(urlRegex, pages[page].url) /\ hinted # {}
           THEN profile = PLATFORM_PROFILES[Least(hinted)].id
           ELSE profile = "unknown"

\* the stages that may follow a stage when its call returns normally
StagesAfter(at) ==
    CASE at = "start" -> {"connect"}
      [] at = "connect" -> {"focus", "title"}
      [] at = "focus" -> {"focus", "title"}
      [] at = "title" -> {"hints", "modelLabel"}
      [] at = "hints" -> {"modelLabel"}
      [] at = "modelLabel" -> {"count"}
      [] at = "count" -> {"locate"}
      [] at = "locate" -> {"click"}
      [] at = "click" -> {"isTextArea"}
      [] at = "isTextArea" -> {"fill", "clear"}
      [] at = "fill" -> {"press"}
      [] at = "clear" -> {"type"}
      [] at = "type" -> {"press"}
      [] at = "press" -> {"phaseA"}
      [] at = "phaseA" -> {"phaseB"}
      [] at = "phaseB" -> {"extract"}
      [] OTHER -> {}

\* both waits have been started
BothWaitsStarted ==
    /\ PageCall("waitForFunction", <<"started">>) \in Range(pageActions)
    /\ PageCall("waitForFunction", <<"finished">>) \in Range(pageActions)

\* the stages up to the baseline count
StagesUpToCount ==
    {"start", "connect", "focus", "title", "hints", "modelLabel", "count"}

\* once the submit key is pressed the count stage is over and the baseline is the
\* count of the document it saw; the extraction is reached only with both waits
\* started and no failure
BaselineAndExtractionInOrder ==
    /\ SubmitPressed =>
           /\ pc \notin StagesUpToCount
           /\ initialCount = countAssistantBlocks(countedDom, strategy.assistant)
    /\ (pc = "extract" \/ responseText # <<>>) => BothWaitsStarted
    /\ pc = "extract" => ~pending.thrown

\* C20: the baseline is taken before the submit key is pressed, the extraction
\* does not run before both waits, and no stream event is pushed before the
\* extraction has returned non-empty text.
C20_NoEventBeforeExtractedText ==
    /\ BaselineAndExtractionInOrder
    /\ pushed # <<>> => responseText # <<>>

\* C20 amended: the stages of an invocation follow each other in the fixed order
\* selection, detection and strategy, baseline count, injection and submit, first
\* wait, second wait, extraction, events (a failure leads to browser.close() and
\* the end of the invocation only); the baseline is taken before the submit key is
\* pressed and the first wait starts only after it; the events start .. done are
\* pushed only after the extraction has returned non-empty text, and the only
\* event pushed without it is the single error event of a failed invocation.
C20_StagesInFixedOrder ==
    /\ [][ pc' # pc => (pc' \in StagesAfter(pc) \/ pc' \in {"close", "done"}) ]_vars
    /\ [][ (initialCount' # initialCount \/ countedDom' # countedDom) =>
              (pc = "count" /\ countedDom' = dom /\ ~SubmitPressed) ]_vars
    /\ [][ responseText' # responseText => pc = "extract" ]_vars
    /\ [](/\ BaselineAndExtractionInOrder
          /\ pc = "phaseA" => SubmitPressed
          /\ (\E i \in 1..Len(pushed) : pushed[i].type # "error") => responseText # <<>>
          /\ (pushed # <<>> /\ responseText = <<>>) =>
                 (Len(pushed) = 1 /\ pushed[1].type = "error"))

\* an invocation on a page with an old reply that went through every stage up to
\* the first wait
C20_Witness ==
    /\ pc = "done"
    /\ initialCount >= 1
    /\ SubmitPressed
    /\ pageActions[Len(pageActions)] = PageCall("waitForFunction", <<"started">>)
    /\ pending = TimeoutError("page.waitForFunction")
    /\ Len(pushed) = 1
    /\ pushed[1].type = "error"

\* the page calls of an injection into a plain multiline text field
TextAreaInjection ==
    <<PageCall("click", <<>>), PageCall("fill", prompt), PageCall("press", <<"Enter">>)>>

\* the page calls of an injection into any other control
EditableInjection ==
    <<PageCall("click", <<>>), PageCall("fill", <<>>), PageCall("type", prompt),
      PageCall("press", <<"Enter">>)>>

IsPrefix(s, t) == Len(s) <= Len(t) /\ SubSeq(t, 1, Len(s)) = s

\* the invocation failed while locating the input, clicking it or setting its content
InjectionFailed ==
    /\ pending.thrown
    /\ \/ pending = InputNotFoundError
       \/ pending.message[1] \in {"locator.click", "locator.evaluate", "locator.fill",
                                   "locator.type"}

\* C21: the page calls of an injection are click, then the delivery of the prompt,
\* then the submit key.  For a textarea the prompt is set by one fill; for any
\* other control the content is cleared by fill("") and the prompt is typed.  The
\* submit key is pressed only when the delivery has returned, and never when
\* locating, clicking or filling failed.
C21_ClickThenContentThenSubmit ==
    /\ [](/\ \/ IsPrefix(pageActions, TextAreaInjection)
              \/ IsPrefix(pageActions, EditableInjection)
              \/ SubmitPressed
          /\ SubmitPressed =>
                 LET plain == IsTextAreaElement(querySelectorAll(dom, input)[1])
                 IN IF plain THEN IsPrefix(TextAreaInjection, pageActions)
                             ELSE IsPrefix(EditableInjection, pageActions)
          /\ InjectionFailed => ~SubmitPressed)
    /\ [][ (SubmitPressed' /\ ~SubmitPressed) =>
              (pc \in {"fill", "type"} /\ ~pending.thrown /\ ~pending'.thrown) ]_vars

C21_Witness ==
    /\ pc = "done"
    /\ ~isTextArea
    /\ IsPrefix(EditableInjection, pageActions)
    /\ pending = TimeoutError("page.waitForFunction")

\* the probe of rule k, made now, finds a first element that reports itself
\* visible, and does not reject
RuleUsable(k) ==
    LET matches == querySelectorAll(dom, strategy.input[k])
    IN /\ strategy.input[k] \notin arg[1]
       /\ matches # <<>>
       /\ matches[1].visible

\* C22: the input rules are probed in order, one after the other from the first;
\* the input used is that of the first rule whose probe finds its first element
\* visible; a rule whose probe rejects or finds nothing visible is passed over and
\* the next rule is probed; when the last rule is passed over the locating step
\* throws the input-not-found error and no page call (click, fill, type, press)
\* is ever made.
C22_FirstVisibleInputRule ==
    /\ [][ (pc # "locate" /\ pc' = "locate") => selectorIndex' = 1 ]_vars
    /\ [][ (pc = "locate" /\ selectorIndex' # selectorIndex) =>
              /\ ~RuleUsable(selectorIndex)
              /\ selectorIndex' = selectorIndex + 1
              /\ pc' = "locate"
              /\ pageActions' = <<>> ]_vars
    /\ [][ (pc = "locate" /\ pc' # pc) =>
              IF RuleUsable(selectorIndex)
              THEN /\ input' = strategy.input[selectorIndex]
                   /\ pc' = "click"
                   /\ ~pending'.thrown
              ELSE /\ selectorIndex = Len(strategy.input)
                   /\ pending' = InputNotFoundError
                   /\ input' = ""
                   /\ pageActions' = <<>> ]_vars
    /\ [](pending = InputNotFoundError => pageActions = <<>>)
    /\ [](pageActions # <<>> =>
             (input = strategy.input[selectorIndex] /\ input \notin arg[1]))

\* rules whose probe rejected were passed over and a later rule was used
C22_Witness ==
    /\ pc = "done"
    /\ input = "textarea[placeholder*=\"Message\"]"
    /\ arg[1] = {"textarea#prompt-textarea", "#prompt-textarea"}
    /\ pages[page].dom = <<El("textareaPrompt", <<>>, TRUE)>>
    /\ SubmitPressed

\* C23: for every profile of the registry and for the unknown profile, the
\* strategy resolved has at least one rule in each of the categories input, stop,
\* send, assistant and modelLabel; the fingerprint rules of the unknown profile
\* are empty and match no page.
C23_EveryCategoryNonEmptyExceptFingerprint ==
    (pc = "returned" /\ arg.fn = "resolveSelectorStrategy") =>
        /\ DOMAIN res.strategy = Categories
        /\ \A c \in Categories \ {"domHints"} : Len(res.strategy[c]) > 0
        /\ arg.profile.id = "unknown" =>
               (res.strategy.domHints = <<>> /\ ~res.fingerprinted)

C23_Witness ==
    /\ pc = "returned"
    /\ arg.fn = "resolveSelectorStrategy"
    /\ arg.profile = UNKNOWN_PROFILE
    /\ Len(arg.dom) = MaxDom
    /\ res.strategy.input = BASE_SELECTORS.input
    /\ ~res.fingerprinted

\* the model-label rules, by position, whose first element on the page has text
LabelRules ==
    {k \in 1..Len(strategy.modelLabel) :
        LET matches == querySelectorAll(pages[page].dom, strategy.modelLabel[k])
        IN matches # <<>> /\ trim(matches[1].text) # <<>>}

\* the model identifier the emitted message must carry
ExpectedModel ==
    IF LabelRules = {} THEN RequestedModelId
    ELSE trim(querySelectorAll(pages[page].dom,
                               strategy.modelLabel[Least(LabelRules)])[1].text)

\* C24: reading the model label is not fatal.  Once the label stage is passed the
\* label is kept exactly when a rule yields text; an invocation on a page that
\* answers, with no call failed, ends with the done event, and its message carries
\* the trimmed label when a rule yields text and the id of the requested model
\* when none does.
C24_ModelLabelNonFatal ==
    /\ pc \in {"count", "locate", "click", "press", "phaseA"} =>
           modelLabel.defined = (LabelRules # {})
    /\ FullSuccess =>
           /\ pushed[Len(pushed)].type = "done"
           /\ pushed[Len(pushed)].message.model = ExpectedModel

\* C25: over any sequence of calls of registerBrowserUniversalProvider, with any
\* options, one provider is constructed and one is registered, by the first call,
\* from that call's options; every later call leaves the flag, the registry and
\* the number of providers constructed as they are.
C25_RegisteredAtMostOnce ==
    /\ [](/\ reg.constructed <= 1
          /\ Len(reg.providers) <= 1
          /\ reg.registered = (reg.calls >= 1)
          /\ reg.calls >= 1 => (reg.constructed = 1 /\ Len(reg.providers) = 1))
    /\ [][ reg.calls >= 1 =>
              /\ reg'.registered = reg.registered
              /\ reg'.providers = reg.providers
              /\ reg'.constructed = reg.constructed ]_vars
    /\ [][ (reg.calls = 0 /\ reg'.calls = 1) =>
              reg'.providers =
                  << [provider |-> [cdpUrl |-> Coalesce(reg'.last[1].options.cdpUrl,
                                                       reg'.last[1].env.cdpUrl,
                                                       DEFAULT_CDP_URL),
                                    urlRegex |-> Coalesce(reg'.last[1].options.urlRegex,
                                                         resolveEnvRegex(reg'.last[1].env),
                                                         DEFAULT_URL_REGEX),
                                    timeoutMs |-> IF reg'.last[1].options.timeoutMs.defined
                                                  THEN reg'.last[1].options.timeoutMs.value
                                                  ELSE DEFAULT_TIMEOUT_MS],
                      sourceId |-> "openclaw-browser-universal"] >> ]_vars

\* a third call with other options, after which the first provider is still the
\* only one
C25_Witness ==
    /\ reg.calls = MaxRegs
    /\ reg.constructed = 1
    /\ Len(reg.providers) = 1
    /\ reg.providers[1].provider.timeoutMs = DEFAULT_TIMEOUT_MS
    /\ reg.last[1].options.timeoutMs = Given(5000)

\* C27: calls of connect() or getActivePage() made on one client before any of
\* them has completed spawn at most one Chrome process and open at most one
\* puppeteer connection.
C27_OverlappingCallsShareOneConnection ==
    client.spawned <= 1 /\ client.connectCalls <= 1

\* C26: with connect() called sequentially, a call made when this.browser is set
\* returns that Browser and makes no probe, spawns no Chrome and opens no
\* connection, and this.browser never changes once set; within a call Chrome is
\* spawned at most once, and only when the first probe found no debugger URL; a
\* call whose second probe finds no debugger URL throws, opens no connection and
\* leaves this.browser null.
C26_SequentialConnectIsCached ==
    /\ [][ \A c \in 1..MaxOverlap :
              (client'.started = client.started + 1 /\ client'.calls[c] # client.calls[c]
                  /\ client.browser # 0) =>
                  /\ client'.probes = client.probes
                  /\ client'.spawned = client.spawned
                  /\ client'.connectCalls = client.connectCalls
                  /\ client'.calls[c].result = client.browser
                  /\ client'.calls[c].pc # "thrown" ]_vars
    /\ [][ client.browser # 0 => client'.browser = client.browser ]_vars
    /\ [](\A c \in 1..MaxOverlap :
             /\ client.calls[c].pc = "returned" =>
                    (client.calls[c].result # 0 /\ client.calls[c].result = client.browser)
             /\ client.calls[c].launches <= 1
             /\ client.calls[c].launches = 1 => client.calls[c].first = "missing")
    /\ [][ client'.spawned # client.spawned =>
              /\ client'.spawned = client.spawned + 1
              /\ \E c \in 1..MaxOverlap :
                    /\ client.calls[c].pc = "probe1"
                    /\ client'.calls[c].first = "missing" ]_vars
    /\ [][ \A c \in 1..MaxOverlap :
              (client.calls[c].pc = "probe2" /\ client'.calls[c].pc # "probe2") =>
                  \/ client'.calls[c].pc = "connecting"
                  \/ /\ client'.calls[c].pc = "thrown"
                     /\ client'.browser = 0
                     /\ client'.connectCalls = client.connectCalls ]_vars

\* three calls in a row: the first spawned Chrome and connected, the others
\* returned its Browser
C26_Witness ==
    /\ client.started = MaxClientCalls
    /\ client.browser = 1
    /\ client.spawned = 1
    /\ client.connectCalls = 1
    /\ client.probes = 2
    /\ \A c \in 1..MaxOverlap :
          client.calls[c].pc = "returned" /\ client.calls[c].result = 1

\* a call whose second probe found nothing, with Chrome spawned and no connection
C26_WitnessSecondProbeFails ==
    /\ client.browser = 0
    /\ client.connectCalls = 0
    /\ \E c \in 1..MaxOverlap :
          /\ client.calls[c].pc = "thrown"
          /\ client.calls[c].launches = 1
          /\ client.calls[c].error = "Failed to discover Chrome CDP endpoint"

\* the fields whose stored value is kept when it is a non-blank string, trimmed
TrimmedFields == {"gatewayUrl", "sessionKey", "lastActiveSessionKey"}

\* the fields whose stored value is kept when it is a string
StringFields == {"token", "browserCdpUrl", "browserUrlRegex"}

\* the fields whose stored value is kept when it is a boolean
BooleanFields ==
    {"chatFocusMode", "chatShowThinking", "browserMode", "browserAutoDetect",
     "browserAutoLaunch", "browserNotifyOnDetect", "navCollapsed"}

\* the stored value of field f, JUndefined when nothing usable is stored
StoredField(f) ==
    IF arg.stored.kind = "object" THEN arg.stored.fields[f] ELSE JUndefined

\* the stored value of field f is valid for f
ValidField(f) ==
    LET v == StoredField(f)
    IN CASE f \in TrimmedFields -> v.t = "string" /\ trim(v.s) # <<>>
         [] f \in StringFields -> v.t = "string"
         [] f \in BooleanFields -> v.t = "boolean"
         [] f = "theme" -> v.t = "string" /\ v.s \in {<<"light">>, <<"dark">>, <<"system">>}
         [] f = "splitRatio" -> v.t = "number" /\ v.n >= 40 /\ v.n <= 70
         [] OTHER -> v.t \in {"object", "array"}

\* the value loadSettings must return for a valid field
KeptField(f) ==
    IF f \in TrimmedFields THEN JString(trim(StoredField(f).s)) ELSE StoredField(f)

\* loadSettings returns, and the record returned has every field, a theme among
\* light, dark and system, a splitRatio within 0.4 .. 0.7 and a gatewayUrl and a
\* sessionKey that are not blank
WellFormedSettings ==
    /\ ~res.threw
    /\ DOMAIN res.settings = FieldNames
    /\ \A f \in FieldNames : res.settings[f].t # "undefined"
    /\ res.settings.theme.s \in {<<"light">>, <<"dark">>, <<"system">>}
    /\ res.settings.splitRatio.t = "number"
    /\ res.settings.splitRatio.n >= 40 /\ res.settings.splitRatio.n <= 70
    /\ \A f \in {"gatewayUrl", "sessionKey"} :
          res.settings[f].t = "string" /\ trim(res.settings[f].s) # <<>>

\* C28: for every stored value loadSettings returns well-formed settings, and
\* every field whose stored value is invalid holds its own default, whatever the
\* other fields hold.
C28_EachInvalidFieldGetsItsDefault ==
    (pc = "returned" /\ arg.fn = "loadSettings") =>
        /\ WellFormedSettings
        /\ \A f \in FieldNames :
              res.settings[f] = IF ValidField(f) THEN KeptField(f)
                                ELSE SettingsDefaults(arg.location)[f]

\* C28 amended: for every stored value loadSettings returns well-formed settings;
\* every field whose stored value is valid keeps it, and every field whose stored
\* value is invalid holds its own default whatever the other fields hold, except
\* lastActiveSessionKey, which then holds the trimmed stored sessionKey when that
\* one is valid and its default otherwise.
C28_InvalidFieldsFallBack ==
    (pc = "returned" /\ arg.fn = "loadSettings") =>
        /\ WellFormedSettings
        /\ \A f \in FieldNames :
              res.settings[f] =
                  IF ValidField(f) THEN KeptField(f)
                  ELSE IF f = "lastActiveSessionKey" /\ ValidField("sessionKey")
                       THEN KeptField("sessionKey")
                       ELSE SettingsDefaults(arg.location)[f]

\* an object with an out-of-range splitRatio and a theme of the wrong type: both
\* fall back, the other fields are kept
C28_Witness ==
    /\ pc = "returned"
    /\ arg.fn = "loadSettings"
    /\ arg.stored.kind = "object"
    /\ arg.stored.fields.splitRatio = JNumber(71)
    /\ arg.stored.fields.theme = JNumber(40)
    /\ res.settings.splitRatio = JNumber(60)
    /\ res.settings.theme = JString(<<"system">>)
    /\ res.settings.gatewayUrl = JString(<<"g">>)

====
